---- MODULE Spec2Model ----
(***************************************************************************)
(* Voice-authentication microservice: the enrollment / verification        *)
(* orchestrator (src/src/services/auth_service.py) with the repository     *)
(* (src/src/clients/supabase_client.py), the similarity judge              *)
(* (src/src/services/embedding_service.py) and the live-capture session    *)
(* (src/src/clients/vapi_client.py) it drives.                             *)
(*                                                                         *)
(* Every request runs as its own task; a task moves from one await to the  *)
(* next in one step, so tasks interleave exactly at the awaits of the      *)
(* code.  The environment (store, network, speaker model) picks the        *)
(* outcome of each external call.                                          *)
(***************************************************************************)
EXTENDS Integers, Sequences, FiniteSets, TLC

\* ------------------------------------------------------------------ bounds
NumTasks == 2
NumPhones == 2
NumCoords == 2
MaxClock == 1
MaxFrames == 6
Overrun == 1
MaxPcmLen == 6
NumRequesters == 3
MaxLoadCalls == 3
MaxRetries == 4
MaxBaseDelay == 3

Tasks == 1..NumTasks
Phones == 1..NumPhones
Requesters == 1..NumRequesters

\* --------------------------------------------------------------- constants
WavHeaderBytes == 44
SampleRate == 16000
SampleWidth == 2
Channels == 1
MinEnrollSeconds == 3
MinVerifySeconds == 1
HistoryLimit == 10
FailureWindowMinutes == 60
DefaultMinDuration == 3
DefaultSilenceDuration == 2
MaxAudioDuration == 30
MaxRequests == 100
WebsocketTimeout == 65

BytesPerSecond == SampleRate * Channels * SampleWidth

\* ------------------------------------------------------------- embeddings
\* An embedding is a 192-vector; the model keeps its first NumCoords
\* coordinates and takes the remaining ones to be zero, so dot products and
\* squared norms are small integers, exact in double precision.
Components == {-1, 0, 1}
Embeddings == [1..NumCoords -> Components]
ZeroEmbedding == [i \in 1..NumCoords |-> 0]

RECURSIVE DotUpTo(_, _, _)
DotUpTo(a, b, k) == IF k = 0 THEN 0 ELSE a[k] * b[k] + DotUpTo(a, b, k - 1)

Dot(a, b) == DotUpTo(a, b, NumCoords)

RECURSIVE GCD(_, _)
GCD(x, y) == IF y = 0 THEN x ELSE GCD(y, x % y)

Sign(x) == IF x > 0 THEN 1 ELSE IF x < 0 THEN -1 ELSE 0

\* A score is a double next to the real number s * sqrt(n / d): s the sign
\* and n / d the square, a reduced fraction, of that real number, and e the
\* side on which the double lies (-1 below it, 0 on it, 1 above it).  d = 0
\* is Python's None.
NoneScore == [s |-> 0, n |-> 0, d |-> 0, e |-> 0]
Score(s, n, d) == [s |-> s, n |-> n, d |-> d, e |-> 0]
Zero == Score(0, 0, 1)
One == Score(1, 1, 1)

\* x or 0.0
OrZero(x) == IF x = NoneScore \/ x.s = 0 THEN Zero ELSE x

\* 0.0 <= x <= 1.0 (a cosine never exceeds 1 after the clip)
InUnitRange(x) == x.s >= 0 /\ x.n <= x.d

\* x >= th for a score x and a rational th = th.n / th.d (th.d > 0): the
\* real number of x is above th, or it is th and the double is not below it
ScoreGE(x, th) ==
    LET above == IF th.n > 0 THEN x.s > 0 /\ x.n * th.d * th.d > th.n * th.n * x.d
                 ELSE IF th.n = 0 THEN x.s > 0
                 ELSE x.s >= 0 \/ x.n * th.d * th.d < th.n * th.n * x.d
        equal == /\ x.s = Sign(th.n)
                 /\ x.n * th.d * th.d = th.n * th.n * x.d
    IN  above \/ (equal /\ x.e >= 0)

\* the configured threshold: a value the validator of Settings accepts
DefaultThreshold == [n |-> 82, d |-> 100]
Thresholds == {[n |-> 0, d |-> 1], DefaultThreshold}

\* np.linalg.norm(v) * np.linalg.norm(v) against the squared norm x of v, in
\* double precision: sqrt(x) is rounded and so is the product, which lands
\* on x (0), above it (1) or below it (-1)
NormProductError(x) ==
    IF x \in {1, 4, 9} THEN 0
    ELSE IF x \in {2, 5, 7, 8} THEN 1
    ELSE -1

\* np.clip(similarity, -1.0, 1.0)
clip(x) ==
    IF x.n = x.d /\ x.s = x.e THEN [x EXCEPT !.e = 0] ELSE x

\* compute_cosine_similarity: ValueError on a zero norm, else
\* dot / (norm1 * norm2) clipped to [-1, 1].  Of the roundings only the one
\* of norm1 * norm2 between vectors of one length can move the quotient off
\* a rational value; between other vectors the cosine is 0 or irrational.
compute_cosine_similarity(embedding1, embedding2) ==
    LET norm1sq == Dot(embedding1, embedding1)
        norm2sq == Dot(embedding2, embedding2)
        dot == Dot(embedding1, embedding2)
        g == GCD(dot * dot, norm1sq * norm2sq)
        e == IF norm1sq = norm2sq THEN 0 - Sign(dot) * NormProductError(norm1sq) ELSE 0
    IN  IF norm1sq = 0 \/ norm2sq = 0
        THEN [exc |-> "ValueError", similarity |-> NoneScore]
        ELSE [exc |-> "none",
              similarity |-> clip([s |-> Sign(dot), n |-> (dot * dot) \div g,
                                   d |-> (norm1sq * norm2sq) \div g, e |-> e])]

\* a comparison that forgets the sign of the cosine
is_same_speaker_abs(similarity, threshold) ==
    similarity.n * threshold.d * threshold.d >= threshold.n * threshold.n * similarity.d

\* similarity >= threshold
is_same_speaker(similarity, threshold) == ScoreGE(similarity, threshold)

\* verify_speaker(embedding1, embedding2, threshold)
verify_speaker(embedding1, embedding2, threshold) ==
    LET c == compute_cosine_similarity(embedding1, embedding2)
    IN  IF ~(0 <= threshold.n /\ threshold.n <= threshold.d)
        THEN [exc |-> "ValueError", is_match |-> FALSE, similarity |-> NoneScore]
        ELSE IF c.exc # "none"
        THEN [exc |-> c.exc, is_match |-> FALSE, similarity |-> NoneScore]
        ELSE [exc |-> "none",
              is_match |-> is_same_speaker(c.similarity, threshold),
              similarity |-> c.similarity]

\* validate_embedding: finite, 192 long, not (close to) all zeros
validate_embedding(embedding) == embedding # ZeroEmbedding

\* ------------------------------------------------------------------ state
VARIABLES
    dbKind,           \* self.db: the DatabaseManager of the source, or the db_manager passed in
    voice_threshold,  \* self.voice_threshold
    users,            \* the users table, by phone
    attempts,         \* the auth_attempts table, in insertion order
    now,              \* the clock read by datetime.utcnow() and time.time()
    task,             \* the request tasks
    session,          \* a VAPIWebSocketClient inside capture_audio
    audio,            \* a PCM buffer on its way through pcm_to_wav and the WAV readers
    decision,         \* a call of verify_speaker
    http,             \* the application behind its middleware stack
    webhook,          \* the calls of the webhook handler, one per task
    enrollment,       \* the calls of the enrollment endpoint, one per task
    loader,           \* the EmbeddingService and the extractions that use it
    retry             \* a call of DatabaseManager.retry_operation

\* what the operations of the service and of the capture session leave alone
opVars == <<enrollment, loader, retry>>

callVars == <<audio, decision, http, webhook, opVars>>

vars == <<dbKind, voice_threshold, users, attempts, now, task, session, callVars>>

NoUser == [present |-> FALSE, embedding |-> ZeroEmbedding, enrolled_at |-> 0]
UserRow(e, at) == [present |-> TRUE, embedding |-> e, enrolled_at |-> at]

\* outcomes of a call, as its caller sees them
NoResult ==
    [kind |-> "none", exc |-> "", success |-> FALSE, message |-> "", score |-> NoneScore]
Return(success, message, score) ==
    [kind |-> "return", exc |-> "", success |-> success, message |-> message, score |-> score]
Raise(exc, message) ==
    [kind |-> "raise", exc |-> exc, success |-> FALSE, message |-> message, score |-> NoneScore]
Cancelled ==
    [kind |-> "cancelled", exc |-> "CancelledError", success |-> FALSE, message |-> "",
     score |-> NoneScore]

NoLog == [site |-> 0, success |-> FALSE, score |-> NoneScore]
NoCapture == [exc |-> "none", pcm_len |-> 0]
NoProcessed == [exc |-> "none", wav_len |-> 0]

IdleTask ==
    [op |-> "idle", pc |-> "idle", phone |-> 0,
     stored_user |-> NoUser, lookup_raised |-> FALSE,
     ws |-> "none", captured |-> NoCapture, processed_audio |-> NoProcessed,
     live_embedding |-> ZeroEmbedding,
     similarity_score |-> NoneScore, auth_success |-> FALSE,
     embedding |-> ZeroEmbedding, enrolled_at |-> 0,
     logArgs |-> NoLog, then |-> NoResult,
     steps |-> {}, store_error |-> FALSE, cancelled |-> FALSE,
     history |-> <<>>, failure_count |-> 0,
     result |-> NoResult]

\* None, for a timestamp
NoneTime == 0 - 1

\* bytes: a sequence of byte values
NoBytes == <<>>

\* a WAV blob: the fields of its 44-byte header, then the PCM
NoWav ==
    [chunk_id |-> "", file_size |-> 0, format |-> "", subchunk1_id |-> "",
     subchunk1_size |-> 0, audio_format |-> 0, channels |-> 0, sample_rate |-> 0,
     byte_rate |-> 0, block_align |-> 0, bits_per_sample |-> 0,
     subchunk2_id |-> "", data_size |-> 0, data |-> NoBytes]

\* VAPIWebSocketClient.__init__: the fields capture_audio reads and writes.
\* websocket tells whether self.websocket is set.  state, exc and wav_data
\* are the position of capture_audio_from_vapi and its outcome; returned
\* tells that the call has returned or raised to its caller.  The fields
\* from close_calls on record what was done to the socket, how the capture
\* loop was left and what the stream delivered; the code does not keep them.
IdleSession ==
    [state |-> "Idle", exc |-> "none", wav_data |-> NoWav, returned |-> FALSE,
     min_duration |-> 0, silence_duration |-> 0, max_audio_duration |-> 0,
     websocket |-> FALSE, is_connected |-> FALSE,
     audio_buffer |-> <<>>, silence_start_time |-> NoneTime,
     capture_start_time |-> NoneTime,
     close_calls |-> 0, received |-> <<>>,
     stop_reason |-> "none", stopped_at |-> NoneTime, last_audio |-> "none",
     last_frame |-> "none",
     frame_after_max |-> FALSE,
     all_silent |-> TRUE, all_non_audio |-> TRUE,
     frame_now |-> FALSE, gapless |-> TRUE]

\* a PCM buffer before pcm_to_wav
IdleAudio ==
    [pc |-> "idle", pcm_data |-> NoBytes, exc |-> "none", wav_data |-> NoWav,
     is_valid |-> FALSE,
     duration |-> [exc |-> "none", data_size |-> 0, bytes_per_second |-> 1]]

\* verify_speaker before it is called
IdleDecision ==
    [pc |-> "idle", embedding1 |-> ZeroEmbedding, embedding2 |-> ZeroEmbedding,
     threshold |-> [n |-> 0, d |-> 1],
     exc |-> "none", is_match |-> FALSE, similarity |-> NoneScore]

\* an HTTP request and a response; call_id and x_call_id are the value of the
\* X-Call-ID header, "" when the header is absent
NoRequest == [path |-> "", call_id |-> ""]
NoResponse ==
    [status_code |-> 0, status |-> "", x_call_id |-> "", security_headers |-> FALSE,
     by |-> ""]

\* the application at start; requests is the number of entries of
\* RateLimitMiddleware.requests, for the one client, that are younger than
\* window_seconds
IdleHttp ==
    [db_healthy |-> TRUE, model_loaded |-> TRUE, requests |-> 0,
     request |-> NoRequest, response |-> NoResponse]

\* a webhook call before it arrives; parsed, number_given and
\* listen_url_given tell whether its body was JSON and what the envelope
\* carried
NoWebhookResponse == [status_code |-> 0, error |-> "", success |-> FALSE]
IdleWebhook ==
    [pc |-> "idle", parsed |-> FALSE, number_given |-> FALSE, listen_url_given |-> FALSE,
     response |-> NoWebhookResponse]

\* the answer of the enrollment endpoint: status and score of an
\* EnrollmentResponse, or the error of an error body
NoEnrollmentResponse == [status_code |-> 0, status |-> "", score |-> NoneScore, error |-> ""]

\* a call of the enrollment endpoint before it arrives
IdleEnrollment == [pc |-> "idle", response |-> NoEnrollmentResponse]

\* EmbeddingService.__init__: no model, not loaded.  from_hparams_calls and
\* loads count the calls of EncoderClassifier.from_hparams and those that
\* returned; extraction is what each caller of generate_embedding got, and
\* used_model the model its encode_batch ran on.  The code keeps none of the
\* three.
IdleLoader ==
    [model |-> "None", model_loaded |-> FALSE,
     from_hparams_calls |-> 0, loads |-> 0,
     extraction |-> [r \in Requesters |-> "none"],
     used_model |-> [r \in Requesters |-> "none"]]

\* retry_operation before it is called.  calls counts the invocations of
\* operation, sleeps lists the delays slept; an exception or a value of
\* operation is known by the number of the invocation that gave it, and
\* NoException is None.
NoException == 0
\* the TypeError of `raise None`
RaiseNoneTypeError == 0 - 1
IdleRetry ==
    [pc |-> "idle", max_retries |-> 0, base_delay |-> 0,
     attempt |-> 0, last_exception |-> NoException,
     calls |-> 0, sleeps |-> <<>>, failed |-> {},
     outcome |-> "none", value |-> 0, exc |-> NoException]

\* The service attaches to a database that may already hold rows.
InitialRows == {NoUser, UserRow(ZeroEmbedding, 0), UserRow([i \in 1..NumCoords |-> 1], 0)}

Init ==
    /\ dbKind \in {"DatabaseManager", "db_manager"}
    /\ voice_threshold \in Thresholds
    /\ users \in [Phones -> InitialRows]
    /\ attempts = <<>>
    /\ now = 0
    /\ task = [t \in Tasks |-> IdleTask]
    /\ session = IdleSession
    /\ audio = IdleAudio
    /\ decision = IdleDecision
    /\ http = IdleHttp
    /\ webhook = [t \in Tasks |-> IdleWebhook]
    /\ enrollment = [t \in Tasks |-> IdleEnrollment]
    /\ loader = IdleLoader
    /\ retry = IdleRetry

\* ------------------------------------------------------------- repository
\* UserRepository.get_user_by_phone.  The DatabaseManager of the source builds
\* User(id=...) from a row, and User has no field id: a found row raises.
get_user_by_phone(kind, row, storeOk) ==
    IF kind = "DatabaseManager"
    THEN IF ~storeOk THEN [exc |-> "APIError", user |-> NoUser]
         ELSE IF ~row.present THEN [exc |-> "none", user |-> NoUser]
         ELSE [exc |-> "TypeError", user |-> NoUser]
    ELSE IF ~storeOk THEN [exc |-> "Exception", user |-> NoUser]
         ELSE [exc |-> "none", user |-> row]

\* an upsert that reaches the table and then raises
create_or_update_user_late_raise(kind, storeOk, us, phone, row) ==
    IF storeOk
    THEN [exc |-> "none", users |-> [us EXCEPT ![phone] = row]]
    ELSE [exc |-> "ValueError", users |-> [us EXCEPT ![phone] = row]]

\* UserRepository.create_or_update_user.  The DatabaseManager of the source
\* reads user.id before the upsert, and User has no field id.
create_or_update_user(kind, storeOk, us, phone, row) ==
    IF kind = "DatabaseManager"
    THEN [exc |-> "AttributeError", users |-> us]
    ELSE IF ~storeOk THEN [exc |-> "Exception", users |-> us]
         ELSE [exc |-> "none", users |-> [us EXCEPT ![phone] = row]]

\* AuthAttemptRepository.create_auth_attempt.  The DatabaseManager of the
\* source reads auth_attempt.user_id before the insert, and AuthAttempt has no
\* field user_id.
create_auth_attempt(kind, storeOk) ==
    IF kind = "DatabaseManager"
    THEN [exc |-> "AttributeError", appended |-> FALSE, store_error |-> FALSE]
    ELSE IF ~storeOk THEN [exc |-> "Exception", appended |-> FALSE, store_error |-> TRUE]
         ELSE [exc |-> "none", appended |-> TRUE, store_error |-> FALSE]

\* an insert that replaces the table by the new row
insert_auth_attempt_overwrite(rows, row) == <<row>>

\* table("auth_attempts").insert(attempt_data).execute()
insert_auth_attempt(rows, row) == Append(rows, row)

Reverse(rows) == [i \in 1..Len(rows) |-> rows[Len(rows) + 1 - i]]

\* AuthAttemptRepository.get_auth_attempts_by_phone(phone, limit), which
\* verify's service calls: the DatabaseManager of the source has no such
\* method (it has get_auth_attempts_by_user); a db_manager passed in answers
\* with the rows of the phone, newest first
get_auth_attempts_by_phone(kind, storeOk, rows, phone, limit) ==
    LET mine == Reverse(SelectSeq(rows, LAMBDA r : r.phone = phone))
    IN  IF kind = "DatabaseManager" THEN [exc |-> "AttributeError", attempts |-> <<>>]
        ELSE IF ~storeOk THEN [exc |-> "Exception", attempts |-> <<>>]
        ELSE [exc |-> "none",
              attempts |-> IF Len(mine) > limit THEN SubSeq(mine, 1, limit) ELSE mine]

\* AuthAttemptRepository.get_recent_failed_attempts(phone, minutes): the
\* DatabaseManager of the source filters on a user_id column with the phone
\* and fails or counts nothing; a db_manager passed in counts the failed rows
\* of the phone since the cutoff
get_recent_failed_attempts(kind, storeOk, rows, phone, cutoff) ==
    IF kind = "DatabaseManager" THEN [exc |-> "APIError", count |-> 0]
    ELSE IF ~storeOk THEN [exc |-> "Exception", count |-> 0]
    ELSE [exc |-> "none",
          count |-> Len(SelectSeq(rows, LAMBDA r : r.phone = phone /\ ~r.success
                                                    /\ r.created_at >= cutoff))]

\* an AuthAttempt that accepts any score
AuthAttempt_post_init_unchecked(score) == "none"

\* AuthAttempt.__post_init__: the score must be None or in [0.0, 1.0]
AuthAttempt_post_init(score) ==
    IF score # NoneScore /\ ~InUnitRange(score) THEN "ValueError" ELSE "none"

\* --------------------------------------------------------------- verify_user
\* a log that is started and not awaited: the statement after it runs at once
AwaitLog_not_awaited(tk, site, success, score, then) ==
    [tk EXCEPT !.pc = "log",
               !.logArgs = [site |-> site, success |-> success, score |-> score],
               !.then = then,
               !.result = then]

\* await self._log_auth_attempt(phone, success, score) at line `site`, with
\* `then` the return or raise statement that follows it
AwaitLog(tk, site, success, score, then) ==
    [tk EXCEPT !.pc = "log",
               !.logArgs = [site |-> site, success |-> success, score |-> score],
               !.then = then]

Deliver(tk, outcome) == [tk EXCEPT !.pc = "done", !.result = outcome]

\* outer handlers without the clause that re-raises VerificationError
OuterHandlers_catch_all(tk, e) ==
    [tk EXCEPT !.pc = "log",
               !.logArgs = [site |-> 301, success |-> FALSE,
                            score |-> OrZero(tk.similarity_score)],
               !.then = Raise("VerificationError", "Verification failed")]

\* the outer handlers of verify_user: VerificationError is re-raised as it
\* is, any other exception is logged as a failed attempt and wrapped
OuterHandlers(tk, e) ==
    IF e.exc = "VerificationError"
    THEN Deliver(tk, e)
    ELSE AwaitLog(tk, 301, FALSE, OrZero(tk.similarity_score),
                  Raise("VerificationError", "Verification failed"))


\* outcomes the environment can give the calls verify_user and enroll_user make
GenOutcomes ==
    {[exc |-> "RuntimeError", embedding |-> ZeroEmbedding]}
        \cup {[exc |-> "none", embedding |-> e] : e \in Embeddings}

\* capture_audio: VAPIConnectionError, VAPIAudioError, or the WAV of the
\* buffered PCM (pcm_len bytes of it, never zero)
CaptureOutcomes ==
    {[exc |-> "VAPIConnectionError", pcm_len |-> 0],
     [exc |-> "VAPIAudioError", pcm_len |-> 0],
     [exc |-> "none", pcm_len |-> MinVerifySeconds * BytesPerSecond - 1],
     [exc |-> "none", pcm_len |-> MinVerifySeconds * BytesPerSecond]}

\* pcm_to_wav: the 44-byte header, then the PCM
pcm_to_wav_len(pcm_len) == WavHeaderBytes + pcm_len

\* pcm_to_wav(pcm_data, sample_rate, channels, sample_width):
\* AudioProcessingError on empty PCM, else the header and the PCM
pcm_to_wav(pcm_data, sample_rate, channels, sample_width) ==
    IF Len(pcm_data) = 0
    THEN [exc |-> "AudioProcessingError", wav_data |-> NoWav]
    ELSE [exc |-> "none",
          wav_data |->
            [chunk_id |-> "RIFF", file_size |-> Len(pcm_data) + 36, format |-> "WAVE",
             subchunk1_id |-> "fmt ", subchunk1_size |-> 16, audio_format |-> 1,
             channels |-> channels, sample_rate |-> sample_rate,
             byte_rate |-> sample_rate * channels * sample_width,
             block_align |-> channels * sample_width,
             bits_per_sample |-> sample_width * 8,
             subchunk2_id |-> "data", data_size |-> Len(pcm_data),
             data |-> pcm_data]]

\* len(audio_data) of a WAV blob
WavLen(audio_data) ==
    IF audio_data = NoWav THEN 0 ELSE WavHeaderBytes + Len(audio_data.data)

\* validate_audio_format: a RIFF/WAVE header of 16 kHz, mono, 16 bit
validate_audio_format(audio_data) ==
    IF WavLen(audio_data) < WavHeaderBytes THEN FALSE
    ELSE IF audio_data.chunk_id # "RIFF" \/ audio_data.format # "WAVE" THEN FALSE
    ELSE IF audio_data.channels # 1 THEN FALSE
    ELSE IF audio_data.sample_rate # 16000 THEN FALSE
    ELSE IF audio_data.bits_per_sample # 16 THEN FALSE
    ELSE TRUE

\* get_audio_duration: AudioProcessingError below 44 bytes, else
\* data_size / bytes_per_second, kept as the pair of the two
get_audio_duration(audio_data) ==
    IF WavLen(audio_data) < WavHeaderBytes
    THEN [exc |-> "AudioProcessingError", data_size |-> 0, bytes_per_second |-> 1]
    ELSE [exc |-> "none",
          data_size |-> WavLen(audio_data) - WavHeaderBytes,
          bytes_per_second |->
              audio_data.sample_rate * audio_data.channels
                  * (audio_data.bits_per_sample \div 8)]

\* a duration check that also rejects the boundary
DurationBelow_inclusive(wav_len, seconds) ==
    (wav_len - WavHeaderBytes) <= seconds * BytesPerSecond

\* get_audio_duration(audio) < seconds, for canonical audio of wav_len bytes
DurationBelow(wav_len, seconds) == (wav_len - WavHeaderBytes) < seconds * BytesPerSecond

\* verify_user, step 1, after await get_user_by_phone returned r
AfterGetUser(tk, r) ==
    LET tk1 == [tk EXCEPT !.steps = @ \cup {"get_user"}, !.lookup_raised = r.exc # "none"]
    IN  IF r.exc # "none"
        THEN OuterHandlers(tk1, Raise("VerificationError", "Failed to retrieve user data"))
        ELSE IF ~r.user.present
        THEN AwaitLog(tk1, 193, FALSE, Zero,
                      Return(FALSE, "User not enrolled for voice authentication", NoneScore))
        ELSE [tk1 EXCEPT !.stored_user = r.user, !.pc = "connect"]

\* a comparison against the row the table holds when the audio is in hand
AfterAudio_rereads(tk, g, threshold) ==
    LET tk1 == [tk EXCEPT !.steps = @ \cup {"generate_embedding"}]
        v == verify_speaker(users[tk.phone].embedding, g.embedding, threshold)
        tk2 == [tk1 EXCEPT !.live_embedding = g.embedding,
                           !.steps = @ \cup {"verify_speaker"}]
        tk3 == [tk2 EXCEPT !.similarity_score = v.similarity,
                           !.auth_success = v.is_match]
    IN  IF g.exc # "none"
        THEN AwaitLog(tk1, 251, FALSE, Zero,
                      Raise("VerificationError", "Failed to process captured audio"))
        ELSE IF ~validate_embedding(g.embedding)
        THEN AwaitLog([tk1 EXCEPT !.live_embedding = g.embedding], 246, FALSE, Zero,
                      Return(FALSE, "Failed to process captured audio", NoneScore))
        ELSE IF v.exc # "none"
        THEN AwaitLog(tk2, 282, FALSE, Zero,
                      Raise("VerificationError", "Failed to compare voice samples"))
        ELSE AwaitLog(tk3, 287, v.is_match, v.similarity,
                      Return(v.is_match,
                             IF v.is_match THEN "Voice verification successful"
                             ELSE "Voice verification failed: similarity below threshold",
                             v.similarity))

\* verify_user, steps 3 to 5, once the live audio is in hand: generate and
\* validate the live embedding (g is what generate_embedding gives), compare,
\* and log
AfterAudio(tk, g, threshold) ==
    LET tk1 == [tk EXCEPT !.steps = @ \cup {"generate_embedding"}]
        v == verify_speaker(tk.stored_user.embedding, g.embedding, threshold)
        tk2 == [tk1 EXCEPT !.live_embedding = g.embedding,
                           !.steps = @ \cup {"verify_speaker"}]
        tk3 == [tk2 EXCEPT !.similarity_score = v.similarity,
                           !.auth_success = v.is_match]
    IN  IF g.exc # "none"
        THEN AwaitLog(tk1, 251, FALSE, Zero,
                      Raise("VerificationError", "Failed to process captured audio"))
        ELSE IF ~validate_embedding(g.embedding)
        THEN AwaitLog([tk1 EXCEPT !.live_embedding = g.embedding], 246, FALSE, Zero,
                      Return(FALSE, "Failed to process captured audio", NoneScore))
        ELSE IF v.exc # "none"
        THEN AwaitLog(tk2, 282, FALSE, Zero,
                      Raise("VerificationError", "Failed to compare voice samples"))
        ELSE AwaitLog(tk3, 287, v.is_match, v.similarity,
                      Return(v.is_match,
                             IF v.is_match THEN "Voice verification successful"
                             ELSE "Voice verification failed: similarity below threshold",
                             v.similarity))

\* a capture failure that is logged and answered with a failed result
AfterCapture_returns_failure(tk, c, g, threshold) ==
    IF c.exc = "VAPIConnectionError"
    THEN AwaitLog(tk, 225, FALSE, Zero,
                  Return(FALSE, "Failed to connect to audio stream", NoneScore))
    ELSE IF c.exc = "VAPIAudioError"
    THEN AwaitLog(tk, 229, FALSE, Zero,
                  Return(FALSE, "Failed to capture audio", NoneScore))
    ELSE IF DurationBelow(pcm_to_wav_len(c.pcm_len), MinVerifySeconds)
    THEN AwaitLog(tk, 218, FALSE, Zero,
                  Return(FALSE, "Captured audio too short for verification", NoneScore))
    ELSE AfterAudio(tk, g, threshold)

\* verify_user, step 2, after capture_audio_from_vapi returned or raised c
AfterCapture(tk, c, g, threshold) ==
    IF c.exc = "VAPIConnectionError"
    THEN AwaitLog(tk, 225, FALSE, Zero,
                  Raise("VerificationError", "Failed to connect to audio stream"))
    ELSE IF c.exc = "VAPIAudioError"
    THEN AwaitLog(tk, 229, FALSE, Zero,
                  Raise("VerificationError", "Failed to capture audio"))
    ELSE IF DurationBelow(pcm_to_wav_len(c.pcm_len), MinVerifySeconds)
    THEN AwaitLog(tk, 218, FALSE, Zero,
                  Return(FALSE, "Captured audio too short for verification", NoneScore))
    ELSE AfterAudio(tk, g, threshold)

\* a handler that re-raises what it caught
log_except_handler_reraise(exc) == exc

\* _log_auth_attempt's handler: whatever the construction of the AuthAttempt
\* or the store raised is logged and not re-raised
log_except_handler(exc) == "none"

\* the statement after a completed await _log_auth_attempt(...)
AfterLog(tk) ==
    IF tk.logArgs.site = 301 \/ tk.then.kind = "return"
    THEN Deliver(tk, tk.then)
    ELSE OuterHandlers(tk, tk.then)

\* where an exception that escaped _log_auth_attempt at a call site would go
LogEscaped(tk) ==
    LET site == tk.logArgs.site
    IN  IF site = 193
        THEN OuterHandlers(tk, Raise("VerificationError", "Failed to retrieve user data"))
        ELSE IF site = 246
        THEN AwaitLog(tk, 251, FALSE, Zero,
                      Raise("VerificationError", "Failed to process captured audio"))
        ELSE IF site \in {287, 301}
        THEN Deliver(tk, tk.then)
        ELSE OuterHandlers(tk, Raise("Exception", "escaped"))

\* CancelledError as a subclass of Exception
cancelled_error_as_exception == TRUE

\* CancelledError derives from BaseException: no `except Exception` catches it
cancelled_error_is_exception == FALSE

verify_user_start(t, p) ==
    /\ task[t].pc = "idle"
    /\ task' = [task EXCEPT ![t] = [@ EXCEPT !.op = "verify", !.pc = "get_user",
                                              !.phone = p]]
    /\ UNCHANGED <<dbKind, voice_threshold, users, attempts, now, session, callVars>>

verify_user_get_user(t) ==
    /\ task[t].op = "verify" /\ task[t].pc = "get_user"
    /\ \E storeOk \in BOOLEAN :
         task' = [task EXCEPT ![t] =
                    AfterGetUser(@, get_user_by_phone(dbKind, users[task[t].phone], storeOk))]
    /\ UNCHANGED <<dbKind, voice_threshold, users, attempts, now, session, callVars>>

\* VAPIWebSocketClient.connect, entered by __aenter__
verify_user_connect(t) ==
    /\ task[t].op = "verify" /\ task[t].pc = "connect"
    /\ \E opened \in BOOLEAN :
         task' = [task EXCEPT ![t] =
                    IF opened
                    THEN [@ EXCEPT !.ws = "open", !.pc = "capture",
                                   !.steps = @ \cup {"connect"}]
                    ELSE AfterCapture([@ EXCEPT !.steps = @ \cup {"connect"}],
                                      [exc |-> "VAPIConnectionError", pcm_len |-> 0],
                                      [exc |-> "none", embedding |-> ZeroEmbedding],
                                      voice_threshold)]
    /\ UNCHANGED <<dbKind, voice_threshold, users, attempts, now, session, callVars>>

\* VAPIWebSocketClient.capture_audio returns or raises; __aexit__ then awaits
\* the close of the socket
verify_user_capture(t) ==
    /\ task[t].op = "verify" /\ task[t].pc = "capture"
    /\ \E c \in CaptureOutcomes :
         task' = [task EXCEPT ![t] = [@ EXCEPT !.captured = c, !.pc = "close",
                                              !.steps = @ \cup {"capture_audio"}]]
    /\ UNCHANGED <<dbKind, voice_threshold, users, attempts, now, session, callVars>>

\* VAPIWebSocketClient.disconnect, then verify_user up to its next await
verify_user_disconnect(t) ==
    /\ task[t].op = "verify" /\ task[t].pc = "close"
    /\ \E g \in GenOutcomes :
         task' = [task EXCEPT ![t] =
                    AfterCapture([@ EXCEPT !.ws = "closed"], task[t].captured, g,
                                 voice_threshold)]
    /\ UNCHANGED <<dbKind, voice_threshold, users, attempts, now, session, callVars>>

\* AuthenticationService._log_auth_attempt
log_auth_attempt(t) ==
    /\ task[t].op = "verify" /\ task[t].pc = "log"
    /\ \E storeOk \in BOOLEAN :
         LET a == task[t].logArgs
             post == AuthAttempt_post_init(a.score)
             c == IF post # "none"
                  THEN [exc |-> post, appended |-> FALSE, store_error |-> FALSE]
                  ELSE create_auth_attempt(dbKind, storeOk)
             tk == [task[t] EXCEPT !.store_error = c.store_error,
                                   !.steps = @ \cup {"log"}]
         IN  /\ attempts' =
                  IF c.appended
                  THEN insert_auth_attempt(attempts,
                              [id |-> Len(attempts) + 1, phone |-> task[t].phone,
                               success |-> a.success, score |-> a.score,
                               created_at |-> now, call |-> t])
                  ELSE attempts
             /\ task' = [task EXCEPT ![t] =
                           IF log_except_handler(c.exc) = "none"
                           THEN AfterLog(tk) ELSE LogEscaped(tk)]
    /\ UNCHANGED <<dbKind, voice_threshold, users, now, session, callVars>>

\* the request task is cancelled while it waits in connect or in the capture loop
cancel(t) ==
    /\ task[t].op = "verify" /\ task[t].pc \in {"connect", "capture"}
    /\ LET tk == [task[t] EXCEPT !.cancelled = TRUE]
       IN  task' = [task EXCEPT ![t] =
                      IF cancelled_error_is_exception
                      THEN IF tk.pc = "connect"
                           THEN AfterCapture(tk, [exc |-> "VAPIConnectionError", pcm_len |-> 0],
                                             [exc |-> "none", embedding |-> ZeroEmbedding],
                                             voice_threshold)
                           ELSE AfterCapture([tk EXCEPT !.ws = "closed"],
                                             [exc |-> "VAPIAudioError", pcm_len |-> 0],
                                             [exc |-> "none", embedding |-> ZeroEmbedding],
                                             voice_threshold)
                      ELSE Deliver([tk EXCEPT !.ws = IF @ = "open" THEN "closed" ELSE @],
                                   Cancelled)]
    /\ UNCHANGED <<dbKind, voice_threshold, users, attempts, now, session, callVars>>

\* ---------------------------------------------------------------- enroll_user
\* process_audio_for_enrollment: AudioDownloadError, AudioProcessingError, or
\* validated 16 kHz mono 16-bit WAV of wav_len bytes
ProcessOutcomes ==
    {[exc |-> "AudioDownloadError", wav_len |-> 0],
     [exc |-> "AudioProcessingError", wav_len |-> 0],
     [exc |-> "none", wav_len |-> WavHeaderBytes],
     [exc |-> "none", wav_len |-> WavHeaderBytes + MinEnrollSeconds * BytesPerSecond - 1],
     [exc |-> "none", wav_len |-> WavHeaderBytes + MinEnrollSeconds * BytesPerSecond]}

\* enroll_user, steps 1 and 2 and the construction of the User: a is what
\* process_audio_for_enrollment gives, g what generate_embedding gives
AfterProcessAudio(tk, a, g, utcnow) ==
    LET tk1 == [tk EXCEPT !.steps = @ \cup {"process_audio"}, !.processed_audio = a]
        tk2 == [tk1 EXCEPT !.steps = @ \cup {"duration"}]
        tk3 == [tk2 EXCEPT !.steps = @ \cup {"generate_embedding"}]
        tk4 == [tk3 EXCEPT !.steps = @ \cup {"validate_embedding"}]
    IN  IF a.exc = "AudioDownloadError"
        THEN Deliver(tk1, Raise("EnrollmentError", "Failed to download audio"))
        ELSE IF a.exc = "AudioProcessingError"
        THEN Deliver(tk1, Raise("EnrollmentError", "Failed to process audio"))
        ELSE IF DurationBelow(a.wav_len, MinEnrollSeconds)
        THEN Deliver(tk2, Raise("EnrollmentError", "Audio too short for enrollment"))
        ELSE IF g.exc # "none"
        THEN Deliver(tk3, Raise("EnrollmentError", "Failed to generate voice embedding"))
        ELSE IF ~validate_embedding(g.embedding)
        THEN Deliver(tk4, Raise("EnrollmentError", "Failed to generate voice embedding"))
        ELSE [tk4 EXCEPT !.embedding = g.embedding, !.enrolled_at = utcnow, !.pc = "store"]

\* enroll_user, step 3, after await create_or_update_user returned or raised c
AfterStore(tk, c) ==
    LET tk1 == [tk EXCEPT !.steps = @ \cup {"create_or_update_user"}]
    IN  IF c.exc # "none"
        THEN Deliver(tk1, Raise("EnrollmentError", "Failed to store user enrollment"))
        ELSE Deliver(tk1, Return(TRUE, "enrolled", One))

enroll_user_start(t, p) ==
    /\ task[t].pc = "idle"
    /\ task' = [task EXCEPT ![t] = [@ EXCEPT !.op = "enroll", !.pc = "process_audio",
                                              !.phone = p]]
    /\ UNCHANGED <<dbKind, voice_threshold, users, attempts, now, session, callVars>>

enroll_user_process_audio(t) ==
    /\ task[t].op = "enroll" /\ task[t].pc = "process_audio"
    /\ \E a \in ProcessOutcomes, g \in GenOutcomes :
         task' = [task EXCEPT ![t] = AfterProcessAudio(@, a, g, now)]
    /\ UNCHANGED <<dbKind, voice_threshold, users, attempts, now, session, callVars>>

enroll_user_store(t) ==
    /\ task[t].op = "enroll" /\ task[t].pc = "store"
    /\ \E storeOk \in BOOLEAN :
         LET c == create_or_update_user(dbKind, storeOk, users, task[t].phone,
                                        UserRow(task[t].embedding, task[t].enrolled_at))
         IN  /\ users' = c.users
             /\ task' = [task EXCEPT ![t] =
                           AfterStore([@ EXCEPT !.store_error = ~storeOk], c)]
    /\ UNCHANGED <<dbKind, voice_threshold, attempts, now, session, callVars>>

Next ==
    \/ \E t \in Tasks, p \in Phones : enroll_user_start(t, p)
    \/ \E t \in Tasks : enroll_user_process_audio(t)
    \/ \E t \in Tasks : enroll_user_store(t)
    \/ \E t \in Tasks, p \in Phones : verify_user_start(t, p)
    \/ \E t \in Tasks : verify_user_get_user(t)
    \/ \E t \in Tasks : verify_user_connect(t)
    \/ \E t \in Tasks : verify_user_capture(t)
    \/ \E t \in Tasks : verify_user_disconnect(t)
    \/ \E t \in Tasks : log_auth_attempt(t)
    \/ \E t \in Tasks : cancel(t)

Spec == Init /\ [][Next]_vars

\* ------------------------------------------------- enrollment under a clock
\* the clock that datetime.utcnow() reads moves on between two steps
clock_tick ==
    /\ now < MaxClock
    /\ now' = now + 1
    /\ UNCHANGED <<dbKind, voice_threshold, users, attempts, task, session, callVars>>

EnrollNext ==
    \/ \E t \in Tasks, p \in Phones : enroll_user_start(t, p)
    \/ \E t \in Tasks : enroll_user_process_audio(t)
    \/ \E t \in Tasks : enroll_user_store(t)
    \/ clock_tick

\* enrollment does not read the threshold
EnrollInit == Init /\ voice_threshold = DefaultThreshold

EnrollSpec == EnrollInit /\ [][EnrollNext]_vars

\* ------------------------------------------------- history, failure count
\* AuthenticationService.get_user_auth_history(phone, limit=10)
get_user_auth_history(t, p) ==
    /\ task[t].pc = "idle"
    /\ \E storeOk \in BOOLEAN :
         LET r == get_auth_attempts_by_phone(dbKind, storeOk, attempts, p, HistoryLimit)
         IN  task' = [task EXCEPT ![t] =
                        [@ EXCEPT !.op = "history", !.pc = "done", !.phone = p,
                                  !.history = r.attempts,
                                  !.result =
                                     IF r.exc = "none"
                                     THEN Return(TRUE, "history", NoneScore)
                                     ELSE Raise("AuthenticationError",
                                                "Failed to retrieve authentication history")]]
    /\ UNCHANGED <<dbKind, voice_threshold, users, attempts, now, session, callVars>>

\* AuthenticationService.check_recent_failures(phone, minutes=60)
check_recent_failures(t, p) ==
    /\ task[t].pc = "idle"
    /\ \E storeOk \in BOOLEAN :
         LET r == get_recent_failed_attempts(dbKind, storeOk, attempts, p,
                                             now - FailureWindowMinutes)
         IN  task' = [task EXCEPT ![t] =
                        [@ EXCEPT !.op = "failures", !.pc = "done", !.phone = p,
                                  !.failure_count = IF r.exc = "none" THEN r.count ELSE 0,
                                  !.result = Return(TRUE, "failure_count", NoneScore)]]
    /\ UNCHANGED <<dbKind, voice_threshold, users, attempts, now, session, callVars>>

\* every operation of the service on a database that holds at most one
\* enrolled voiceprint value
ServiceInit ==
    /\ Init
    /\ voice_threshold = DefaultThreshold
    /\ \A p \in Phones : users[p].present => users[p].embedding # ZeroEmbedding

ServiceNext ==
    \/ Next
    \/ \E t \in Tasks, p \in Phones : get_user_auth_history(t, p)
    \/ \E t \in Tasks, p \in Phones : check_recent_failures(t, p)

ServiceSpec == ServiceInit /\ [][ServiceNext]_vars

\* ------------------------------------------------------------ capture_audio
\* what one WebSocket message can be: audio above or below the RMS threshold,
\* JSON without an audio key, an empty chunk, text that is not JSON, an audio
\* body that does not decode
AudioFrames == {"loud", "silent"}
OtherFrames == {"no_audio", "empty", "malformed", "undecodable"}
Frames == AudioFrames \cup OtherFrames

\* `if ts and ...` on an Optional[float]
Truthy(ts) == ts # NoneTime /\ ts # 0

\* a stop test whose silence comparison is strict
should_stop_capture_strict(s, current_time) ==
    IF Truthy(s.capture_start_time)
          /\ current_time - s.capture_start_time >= s.max_audio_duration
    THEN "max"
    ELSE IF Truthy(s.silence_start_time)
          /\ current_time - s.silence_start_time > s.silence_duration
    THEN "silence"
    ELSE "none"

\* _should_stop_capture: the reason to stop, "none" for False
should_stop_capture(s, current_time) ==
    IF Truthy(s.capture_start_time)
          /\ current_time - s.capture_start_time >= s.max_audio_duration
    THEN "max"
    ELSE IF Truthy(s.silence_start_time)
          /\ current_time - s.silence_start_time >= s.silence_duration
    THEN "silence"
    ELSE "none"

\* a frame that leaves the timer alone only while no silence is timed
process_audio_message_resets_timer(s, frame, audio_chunk, current_time) ==
    IF frame \in OtherFrames
    THEN [s EXCEPT !.silence_start_time = NoneTime]
    ELSE [s EXCEPT !.audio_buffer = Append(@, audio_chunk),
                   !.silence_start_time =
                       IF frame = "silent"
                       THEN (IF @ = NoneTime THEN current_time ELSE @)
                       ELSE NoneTime]

\* a silence timer restarted by every silent frame
process_audio_message_restarts_timer(s, frame, audio_chunk, current_time) ==
    IF frame \in OtherFrames
    THEN s
    ELSE [s EXCEPT !.audio_buffer = Append(@, audio_chunk),
                   !.silence_start_time =
                       IF frame = "silent" THEN current_time ELSE NoneTime]

\* _process_audio_message up to its stop test: only a frame that carries a
\* non-empty decoded chunk is buffered and moves the silence timer
process_audio_message(s, frame, audio_chunk, current_time) ==
    IF frame \in OtherFrames
    THEN s
    ELSE [s EXCEPT !.audio_buffer = Append(@, audio_chunk),
                   !.silence_start_time =
                       IF frame = "silent"
                       THEN (IF @ = NoneTime THEN current_time ELSE @)
                       ELSE NoneTime]

\* a capture loop without the minimum-duration rule
min_duration_reset_absent(s, current_time) == s

\* capture_audio, after a message that did not stop the loop: a silence
\* timer running before min_duration is cleared
min_duration_reset(s, current_time) ==
    IF current_time - s.capture_start_time < s.min_duration /\ Truthy(s.silence_start_time)
    THEN [s EXCEPT !.silence_start_time = NoneTime]
    ELSE s

\* a join that puts the chunks together last first
RECURSIVE join_reversed(_)
join_reversed(chunks) ==
    IF chunks = <<>> THEN NoBytes ELSE join_reversed(Tail(chunks)) \o Head(chunks)

\* b''.join(chunks)
RECURSIVE join(_)
join(chunks) ==
    IF chunks = <<>> THEN NoBytes ELSE Head(chunks) \o join(Tail(chunks))

\* capture_audio after the loop: VAPIAudioError if nothing was buffered, else
\* the WAV of the joined buffer
AfterLoop(s, reason, current_time) ==
    LET combined_pcm == join(s.audio_buffer)
        w == pcm_to_wav(combined_pcm, SampleRate, Channels, SampleWidth)
    IN  [s EXCEPT !.state = IF s.audio_buffer = <<>> THEN "Failed" ELSE "Done",
                  !.exc = IF s.audio_buffer = <<>> THEN "VAPIAudioError" ELSE "none",
                  !.wav_data = IF s.audio_buffer = <<>> THEN NoWav ELSE w.wav_data,
                  !.stop_reason = reason,
                  !.stopped_at = current_time]

\* one turn of the capture loop on a message; the clock reads within one turn
\* give the same instant
CaptureLoopTurn(s, frame, audio_chunk, current_time) ==
    LET s1 == process_audio_message(s, frame, audio_chunk, current_time)
        stop == IF frame \in AudioFrames THEN should_stop_capture(s1, current_time)
                ELSE "none"
        s2 == [s1 EXCEPT
                 !.received = IF frame \in AudioFrames THEN Append(@, audio_chunk) ELSE @,
                 !.last_audio = IF frame \in AudioFrames THEN frame ELSE @,
                 !.last_frame = IF frame \in AudioFrames THEN "audio" ELSE "skipped",
                 !.frame_after_max =
                     @ \/ current_time - s.capture_start_time >= s.max_audio_duration,
                 !.all_silent = @ /\ frame = "silent",
                 !.all_non_audio = @ /\ frame = "no_audio",
                 !.frame_now = TRUE]
    IN  IF stop # "none"
        THEN AfterLoop(s2, stop, current_time)
        ELSE min_duration_reset(s2, current_time)

\* a disconnect that leaves the socket of a failed capture open
disconnect_after_success(s) ==
    IF s.websocket /\ s.is_connected /\ s.state = "Done"
    THEN [s EXCEPT !.close_calls = @ + 1, !.is_connected = FALSE, !.websocket = FALSE]
    ELSE s

\* disconnect: a socket that is set and connected is closed, whether close()
\* raises or not, and forgotten
disconnect(s) ==
    IF s.websocket /\ s.is_connected
    THEN [s EXCEPT !.close_calls = @ + 1, !.is_connected = FALSE, !.websocket = FALSE]
    ELSE s

\* capture_audio_from_vapi, __aenter__: connect() opens the socket or raises
\* VAPIConnectionError, and then the call is over without __aexit__
capture_audio_from_vapi_enter ==
    /\ session.state = "Idle"
    /\ \E opened \in BOOLEAN :
         session' =
            IF opened
            THEN [session EXCEPT !.state = "Connected",
                                 !.websocket = TRUE, !.is_connected = TRUE]
            ELSE [session EXCEPT !.state = "Failed", !.exc = "VAPIConnectionError",
                                 !.stop_reason = "connect", !.returned = TRUE]
    /\ UNCHANGED <<dbKind, voice_threshold, users, attempts, now, task, callVars>>

\* capture_audio: the capture state is reset and the loop entered
capture_audio_begin ==
    /\ session.state = "Connected"
    /\ session' = [session EXCEPT !.state = "Capturing",
                                   !.audio_buffer = <<>>,
                                   !.silence_start_time = NoneTime,
                                   !.capture_start_time = now]
    /\ UNCHANGED <<dbKind, voice_threshold, users, attempts, now, task, callVars>>

\* the decoded chunk of the next audio frame: one 16-bit sample that tells
\* the frame's place among the audio frames of the stream
NextChunk(s) == <<Len(s.received) + 1, Len(s.received) + 1>>

\* the loop receives a message
capture_audio_message ==
    /\ session.state = "Capturing"
    /\ \E frame \in Frames :
         /\ frame \in AudioFrames => Len(session.audio_buffer) < MaxFrames
         /\ session' = CaptureLoopTurn(session, frame,
                                       IF frame \in AudioFrames THEN NextChunk(session)
                                       ELSE NoBytes,
                                       now)
    /\ UNCHANGED <<dbKind, voice_threshold, users, attempts, now, task, callVars>>

\* the peer closes the stream: a clean close ends the loop, any other close
\* raises ConnectionClosed out of it
capture_audio_closed ==
    /\ session.state = "Capturing"
    /\ \E clean \in BOOLEAN :
         session' =
            IF clean
            THEN AfterLoop(session, "closed", now)
            ELSE [session EXCEPT !.state = "Failed", !.exc = "VAPIConnectionError",
                                 !.stop_reason = "closed", !.stopped_at = now]
    /\ UNCHANGED <<dbKind, voice_threshold, users, attempts, now, task, callVars>>

\* the loop raises something else: a WebSocketException becomes
\* VAPIConnectionError, any other Exception VAPIAudioError
capture_audio_raises ==
    /\ session.state = "Capturing"
    /\ \E e \in {"WebSocketException", "Exception"} :
         session' = [session EXCEPT
                        !.state = "Failed",
                        !.exc = IF e = "WebSocketException" THEN "VAPIConnectionError"
                                ELSE "VAPIAudioError",
                        !.stop_reason = "error", !.stopped_at = now]
    /\ UNCHANGED <<dbKind, voice_threshold, users, attempts, now, task, callVars>>

\* capture_audio_from_vapi, __aexit__: capture_audio has returned or raised,
\* disconnect() runs and the call is over
capture_audio_from_vapi_exit ==
    /\ session.state \in {"Done", "Failed"}
    /\ ~session.returned
    /\ session' = [disconnect(session) EXCEPT !.returned = TRUE]
    /\ UNCHANGED <<dbKind, voice_threshold, users, attempts, now, task, callVars>>

\* time passes while the loop waits for the next message
capture_tick ==
    /\ session.state = "Capturing"
    /\ now - session.capture_start_time < session.max_audio_duration + Overrun
    /\ now' = now + 1
    /\ session' = [session EXCEPT !.frame_now = FALSE,
                                   !.gapless = @ /\ session.frame_now]
    /\ UNCHANGED <<dbKind, voice_threshold, users, attempts, task, callVars>>

\* a new client with the parameters of its caller; the clock shows a time
\* after the epoch
CaptureInit ==
    /\ dbKind = "db_manager"
    /\ voice_threshold = DefaultThreshold
    /\ users = [p \in Phones |-> NoUser]
    /\ attempts = <<>>
    /\ now = 1
    /\ task = [t \in Tasks |-> IdleTask]
    /\ audio = IdleAudio
    /\ decision = IdleDecision
    /\ http = IdleHttp
    /\ webhook = [t \in Tasks |-> IdleWebhook]
    /\ enrollment = [t \in Tasks |-> IdleEnrollment]
    /\ loader = IdleLoader
    /\ retry = IdleRetry
    /\ \E m \in {0, DefaultMinDuration}, sd \in {0, DefaultSilenceDuration} :
         session = [IdleSession EXCEPT !.min_duration = m,
                                       !.silence_duration = sd,
                                       !.max_audio_duration = MaxAudioDuration]

CaptureNext ==
    \/ capture_audio_from_vapi_enter
    \/ capture_audio_begin
    \/ capture_audio_message
    \/ capture_audio_closed
    \/ capture_audio_raises
    \/ capture_audio_from_vapi_exit
    \/ capture_tick

CaptureSpec == CaptureInit /\ [][CaptureNext]_vars

\* ------------------------------------------- capture against the deadline
\* time passes while the loop waits for the next message, to the session
\* deadline of the settings and past it
deadline_tick ==
    /\ session.state = "Capturing"
    /\ now - session.capture_start_time < WebsocketTimeout + Overrun
    /\ now' = now + 1
    /\ session' = [session EXCEPT !.frame_now = FALSE,
                                   !.gapless = @ /\ session.frame_now]
    /\ UNCHANGED <<dbKind, voice_threshold, users, attempts, task, callVars>>

\* the client verify_user opens: min_duration 3.0, silence_duration 2.0,
\* max_duration 30.0
DeadlineInit ==
    /\ CaptureInit
    /\ session.min_duration = DefaultMinDuration
    /\ session.silence_duration = DefaultSilenceDuration

DeadlineNext ==
    \/ capture_audio_from_vapi_enter
    \/ capture_audio_begin
    \/ capture_audio_message
    \/ capture_audio_closed
    \/ capture_audio_raises
    \/ capture_audio_from_vapi_exit
    \/ deadline_tick

DeadlineSpec == DeadlineInit /\ [][DeadlineNext]_vars

\* ------------------------------------------------------- WAV round trip
\* the PCM buffers handed to pcm_to_wav
SampleBytes == {0, 255}

RECURSIVE BytesOfLen(_)
BytesOfLen(k) ==
    IF k = 0 THEN {NoBytes}
    ELSE {Append(b, x) : b \in BytesOfLen(k - 1), x \in SampleBytes}

PcmInputs == UNION {BytesOfLen(k) : k \in 0..MaxPcmLen}

\* pcm_to_wav(P, 16000, 1, 2) is called
pcm_to_wav_call ==
    /\ audio.pc = "idle"
    /\ LET w == pcm_to_wav(audio.pcm_data, SampleRate, Channels, SampleWidth)
       IN  audio' = [audio EXCEPT !.pc = IF w.exc = "none" THEN "converted" ELSE "raised",
                                  !.exc = w.exc,
                                  !.wav_data = w.wav_data]
    /\ UNCHANGED <<dbKind, voice_threshold, users, attempts, now, task, session,
                   decision, http, webhook, opVars>>

\* validate_audio_format is called on the blob
validate_audio_format_call ==
    /\ audio.pc = "converted"
    /\ audio' = [audio EXCEPT !.pc = "validated",
                              !.is_valid = validate_audio_format(audio.wav_data)]
    /\ UNCHANGED <<dbKind, voice_threshold, users, attempts, now, task, session,
                   decision, http, webhook, opVars>>

\* get_audio_duration is called on the blob
get_audio_duration_call ==
    /\ audio.pc = "validated"
    /\ audio' = [audio EXCEPT !.pc = "measured",
                              !.duration = get_audio_duration(audio.wav_data)]
    /\ UNCHANGED <<dbKind, voice_threshold, users, attempts, now, task, session,
                   decision, http, webhook, opVars>>

AudioInit ==
    /\ dbKind = "db_manager"
    /\ voice_threshold = DefaultThreshold
    /\ users = [p \in Phones |-> NoUser]
    /\ attempts = <<>>
    /\ now = 0
    /\ task = [t \in Tasks |-> IdleTask]
    /\ session = IdleSession
    /\ \E P \in PcmInputs : audio = [IdleAudio EXCEPT !.pcm_data = P]
    /\ decision = IdleDecision
    /\ http = IdleHttp
    /\ webhook = [t \in Tasks |-> IdleWebhook]
    /\ enrollment = [t \in Tasks |-> IdleEnrollment]
    /\ loader = IdleLoader
    /\ retry = IdleRetry

AudioNext ==
    \/ pcm_to_wav_call
    \/ validate_audio_format_call
    \/ get_audio_duration_call

AudioSpec == AudioInit /\ [][AudioNext]_vars

\* ------------------------------------------------------------ the judge
\* thresholds a caller can pass to verify_speaker: below 0, 0, the default,
\* 1 and above 1
JudgeThresholds ==
    Thresholds \cup {[n |-> 0 - 1, d |-> 2], [n |-> 1, d |-> 1], [n |-> 3, d |-> 2]}

\* verify_speaker(embedding1, embedding2, threshold) is called
verify_speaker_call ==
    /\ decision.pc = "idle"
    /\ LET r == verify_speaker(decision.embedding1, decision.embedding2,
                               decision.threshold)
       IN  decision' = [decision EXCEPT !.pc = "done", !.exc = r.exc,
                                        !.is_match = r.is_match,
                                        !.similarity = r.similarity]
    /\ UNCHANGED <<dbKind, voice_threshold, users, attempts, now, task, session,
                   audio, http, webhook, opVars>>

JudgeInit ==
    /\ dbKind = "db_manager"
    /\ voice_threshold = DefaultThreshold
    /\ users = [p \in Phones |-> NoUser]
    /\ attempts = <<>>
    /\ now = 0
    /\ task = [t \in Tasks |-> IdleTask]
    /\ session = IdleSession
    /\ audio = IdleAudio
    /\ \E a \in Embeddings, b \in Embeddings, th \in JudgeThresholds :
         decision = [IdleDecision EXCEPT !.embedding1 = a, !.embedding2 = b,
                                         !.threshold = th]
    /\ http = IdleHttp
    /\ webhook = [t \in Tasks |-> IdleWebhook]
    /\ enrollment = [t \in Tasks |-> IdleEnrollment]
    /\ loader = IdleLoader
    /\ retry = IdleRetry

JudgeNext == verify_speaker_call

JudgeSpec == JudgeInit /\ [][JudgeNext]_vars

\* -------------------------------------------------- HTTP, middleware stack
HttpPaths == {"/healthz", "/api/v1/health", "/api/v1/verify-password"}
CallIds == {"", "call-1", "call-2"}
Requests == [path : HttpPaths, call_id : CallIds]

\* RequestLoggingMiddleware.exclude_paths
exclude_paths == {"/healthz", "/docs", "/redoc", "/openapi.json"}

\* what an endpoint hands to the innermost middleware: a response, or an
\* exception (status_code 0, by "Exception")
Answer(status_code, status) ==
    [status_code |-> status_code, status |-> status, x_call_id |-> "",
     security_headers |-> FALSE, by |-> "endpoint"]
Raised == [NoResponse EXCEPT !.by = "Exception"]

\* main.health_check
health_check == Answer(200, "healthy")

\* api.auth.auth_health_check: get_auth_service() may raise; db.health_check()
\* gives False when the store cannot be reached
auth_health_check(serviceOk, db_healthy, model_loaded) ==
    IF ~serviceOk THEN Raised
    ELSE Answer(200, IF db_healthy /\ model_loaded THEN "healthy" ELSE "unhealthy")

\* the other endpoints: a response of their own, an HTTPException turned into
\* a response by FastAPI, or an exception
EndpointOutcomes == {Answer(200, ""), Answer(400, ""), Answer(500, ""), Raised}

\* SecurityHeadersMiddleware.dispatch around what the endpoint gave
SecurityHeadersMiddleware_dispatch(request, inner) ==
    IF inner = Raised THEN Raised ELSE [inner EXCEPT !.security_headers = TRUE]

\* RequestLoggingMiddleware.dispatch around what call_next gave
RequestLoggingMiddleware_dispatch(request, inner) ==
    LET correlation_id == IF request.call_id = "" THEN "req_ms" ELSE request.call_id
    IN  IF request.path \in exclude_paths THEN inner
        ELSE IF inner = Raised
        THEN [status_code |-> 500, status |-> "", x_call_id |-> correlation_id,
              security_headers |-> FALSE, by |-> "RequestLoggingMiddleware"]
        ELSE [inner EXCEPT !.x_call_id = correlation_id]

\* RateLimitMiddleware.dispatch: in_window is the number of requests of the
\* client that are left once the old ones are dropped
RateLimitMiddleware_dispatch(in_window, request, inner) ==
    IF in_window >= MaxRequests
    THEN [requests |-> in_window,
          response |-> [status_code |-> 429, status |-> "", x_call_id |-> "",
                        security_headers |-> FALSE, by |-> "RateLimitMiddleware"]]
    ELSE [requests |-> in_window + 1, response |-> inner]

\* one request through the stack of main.py: RateLimitMiddleware, then
\* MetricsMiddleware (whose counters are not kept here), then
\* RequestLoggingMiddleware, then SecurityHeadersMiddleware, then the endpoint
http_request ==
    \E request \in Requests, serviceOk \in BOOLEAN, other \in EndpointOutcomes :
        LET endpoint ==
                IF request.path = "/healthz" THEN health_check
                ELSE IF request.path = "/api/v1/health"
                THEN auth_health_check(serviceOk, http.db_healthy, http.model_loaded)
                ELSE other
            inner == RequestLoggingMiddleware_dispatch(
                         request, SecurityHeadersMiddleware_dispatch(request, endpoint))
            out == RateLimitMiddleware_dispatch(http.requests, request, inner)
        IN  /\ http' = [http EXCEPT !.requests = out.requests,
                                    !.request = request,
                                    !.response = out.response]
            /\ UNCHANGED <<dbKind, voice_threshold, users, attempts, now, task, session,
                           audio, decision, webhook, opVars>>

\* time passes: the oldest request of the client leaves the window
window_slides ==
    /\ http.requests > 0
    /\ http' = [http EXCEPT !.requests = @ - 1]
    /\ UNCHANGED <<dbKind, voice_threshold, users, attempts, now, task, session,
                   audio, decision, webhook, opVars>>

\* the store and the speaker model are up or down
HttpInit ==
    /\ dbKind = "db_manager"
    /\ voice_threshold = DefaultThreshold
    /\ users = [p \in Phones |-> NoUser]
    /\ attempts = <<>>
    /\ now = 0
    /\ task = [t \in Tasks |-> IdleTask]
    /\ session = IdleSession
    /\ audio = IdleAudio
    /\ decision = IdleDecision
    /\ \E db \in BOOLEAN, model \in BOOLEAN :
         http = [IdleHttp EXCEPT !.db_healthy = db, !.model_loaded = model]
    /\ webhook = [t \in Tasks |-> IdleWebhook]
    /\ enrollment = [t \in Tasks |-> IdleEnrollment]
    /\ loader = IdleLoader
    /\ retry = IdleRetry

HttpNext ==
    \/ http_request
    \/ window_slides

HttpSpec == HttpInit /\ [][HttpNext]_vars

\* ---------------------------------------------------------------- webhook
\* a JSON object of the envelope: whether it is there and not empty, whether
\* it has the key, and the value under the key (0: null or "")
NoObject == [obj |-> FALSE, key |-> FALSE, value |-> 0]
Objects ==
    {NoObject, [obj |-> TRUE, key |-> FALSE, value |-> 0]}
        \cup {[obj |-> TRUE, key |-> TRUE, value |-> v] : v \in 0..NumPhones}

\* the body of a webhook request: not JSON, JSON whose "message" is no
\* object, or message.call.customer, message.customer and message.call.monitor
Payloads ==
    {[shape |-> s, call_customer |-> NoObject, customer |-> NoObject, monitor |-> NoObject] :
        s \in {"invalid_json", "not_object"}}
    \cup [shape : {"object"}, call_customer : Objects, customer : Objects,
          monitor : {m \in Objects : m.value <= 1}]

\* the customer number an envelope carries: the one of message.call.customer
\* if that object has the key, else the one of message.customer
EnvelopeNumber(payload) ==
    IF payload.shape # "object" THEN 0
    ELSE IF payload.call_customer.key THEN payload.call_customer.value
    ELSE IF payload.customer.key THEN payload.customer.value
    ELSE 0

\* the listenUrl an envelope carries
EnvelopeListenUrl(payload) ==
    IF payload.shape # "object" \/ ~payload.monitor.key THEN 0
    ELSE payload.monitor.value

\* extract_phone_from_vapi_payload: None (0) also when the lookup raises
extract_phone_from_vapi_payload(payload) ==
    IF payload.shape # "object" THEN 0
    ELSE IF payload.call_customer.obj /\ payload.call_customer.key
    THEN payload.call_customer.value
    ELSE IF payload.customer.obj /\ payload.customer.key
    THEN payload.customer.value
    ELSE 0

\* a lookup that makes up a URL when the envelope has none
extract_listen_url_with_default(payload) ==
    IF payload.shape = "object" /\ payload.monitor.obj /\ payload.monitor.key
          /\ payload.monitor.value # 0
    THEN payload.monitor.value
    ELSE 1

\* extract_listen_url_from_vapi_payload
extract_listen_url_from_vapi_payload(payload) ==
    IF payload.shape # "object" THEN 0
    ELSE IF payload.monitor.obj /\ payload.monitor.key THEN payload.monitor.value
    ELSE 0

WebhookResponse(status_code, error, success) ==
    [status_code |-> status_code, error |-> error, success |-> success]

\* handle_vapi_webhook up to the await of verify_user
handle_vapi_webhook(t) ==
    /\ webhook[t].pc = "idle" /\ task[t].pc = "idle"
    /\ \E payload \in Payloads, serviceOk \in BOOLEAN :
         LET phone == extract_phone_from_vapi_payload(payload)
             listen_url == extract_listen_url_from_vapi_payload(payload)
             w == [webhook[t] EXCEPT
                      !.parsed = payload.shape # "invalid_json",
                      !.number_given = EnvelopeNumber(payload) # 0,
                      !.listen_url_given = EnvelopeListenUrl(payload) # 0]
             answer(r) == [w EXCEPT !.pc = "done", !.response = r]
         IN  IF payload.shape = "invalid_json"
             THEN /\ webhook' = [webhook EXCEPT ![t] =
                                   answer(WebhookResponse(500, "InternalServerError", FALSE))]
                  /\ task' = task
             ELSE IF phone = 0
             THEN /\ webhook' = [webhook EXCEPT ![t] =
                                   answer(WebhookResponse(400, "MissingPhoneNumber", FALSE))]
                  /\ task' = task
             ELSE IF listen_url = 0
             THEN /\ webhook' = [webhook EXCEPT ![t] =
                                   answer(WebhookResponse(400, "MissingListenURL", FALSE))]
                  /\ task' = task
             ELSE IF ~serviceOk
             THEN /\ webhook' = [webhook EXCEPT ![t] =
                                   answer(WebhookResponse(500, "InternalServerError", FALSE))]
                  /\ task' = task
             ELSE /\ webhook' = [webhook EXCEPT ![t] = [w EXCEPT !.pc = "verifying"]]
                  /\ task' = [task EXCEPT ![t] = [@ EXCEPT !.op = "verify",
                                                            !.pc = "get_user",
                                                            !.phone = phone]]
    /\ UNCHANGED <<dbKind, voice_threshold, users, attempts, now, session,
                   audio, decision, http, opVars>>

\* handle_vapi_webhook after verify_user returned or raised
handle_vapi_webhook_respond(t) ==
    /\ webhook[t].pc = "verifying"
    /\ task[t].op = "verify" /\ task[t].pc = "done"
    /\ LET r == task[t].result
       IN  webhook' = [webhook EXCEPT ![t] =
              [@ EXCEPT !.pc = IF r.kind = "cancelled" THEN "cancelled" ELSE "done",
                        !.response =
                            IF r.kind = "return" THEN WebhookResponse(200, "", r.success)
                            ELSE IF r.kind = "cancelled" THEN NoWebhookResponse
                            ELSE IF r.exc = "VerificationError"
                            THEN WebhookResponse(400, "VerificationFailed", FALSE)
                            ELSE WebhookResponse(500, "InternalServerError", FALSE)]]
    /\ UNCHANGED <<dbKind, voice_threshold, users, attempts, now, task, session,
                   audio, decision, http, opVars>>

\* the service behind the webhook, attached to a store without rows or with
\* one enrolled voiceprint
WebhookInit ==
    /\ Init
    /\ voice_threshold = DefaultThreshold
    /\ \A p \in Phones : users[p].present => users[p].embedding # ZeroEmbedding

WebhookNext ==
    \/ \E t \in Tasks : handle_vapi_webhook(t)
    \/ \E t \in Tasks : verify_user_get_user(t)
    \/ \E t \in Tasks : verify_user_connect(t)
    \/ \E t \in Tasks : verify_user_capture(t)
    \/ \E t \in Tasks : verify_user_disconnect(t)
    \/ \E t \in Tasks : log_auth_attempt(t)
    \/ \E t \in Tasks : cancel(t)
    \/ \E t \in Tasks : handle_vapi_webhook_respond(t)

WebhookSpec == WebhookInit /\ [][WebhookNext]_vars


\* ------------------------------------------------------ enrollment endpoint
\* the parameters of record_enrollment_metrics; none has a default
record_enrollment_metrics_parameters == {"success", "processing_time", "user_id"}

\* a call of record_enrollment_metrics by keyword: a keyword that names no
\* parameter, or a parameter left without argument, raises TypeError before
\* the body runs
record_enrollment_metrics(keywords) ==
    IF keywords = record_enrollment_metrics_parameters THEN "none" ELSE "TypeError"

\* the words the endpoint looks for that the fixed part of an
\* EnrollmentError's text holds
MessageWords(message) ==
    IF message = "Failed to download audio" THEN {"download"}
    ELSE IF message = "Failed to store user enrollment" THEN {"store"}
    ELSE {}

\* the words the text of the wrapped exception can add; "Audio too short for
\* enrollment" wraps no exception
Details == {{}, {"download"}, {"conversion"}, {"processing"}, {"database"}}

\* the endpoint's choice of status code and error type from the words of
\* str(e).lower()
enrollment_error_status(words) ==
    IF "download" \in words
    THEN [status_code |-> 400, error |-> "AudioDownloadError"]
    ELSE IF "conversion" \in words \/ "processing" \in words
    THEN [status_code |-> 422, error |-> "AudioProcessingError"]
    ELSE IF "store" \in words \/ "database" \in words
    THEN [status_code |-> 500, error |-> "DatabaseError"]
    ELSE [status_code |-> 400, error |-> "EnrollmentError"]

EnrollmentAnswer(status_code, status, score, error) ==
    [status_code |-> status_code, status |-> status, score |-> score, error |-> error]

\* POST /api/v1/enroll-user up to the await of AuthenticationService.enroll_user;
\* get_auth_service() is called outside the try, and what it raises leaves
\* the endpoint
enroll_user_endpoint(t, p) ==
    /\ enrollment[t].pc = "idle" /\ task[t].pc = "idle"
    /\ \E serviceOk \in BOOLEAN :
         IF serviceOk
         THEN /\ enrollment' = [enrollment EXCEPT ![t] = [@ EXCEPT !.pc = "enrolling"]]
              /\ task' = [task EXCEPT ![t] = [@ EXCEPT !.op = "enroll",
                                                        !.pc = "process_audio",
                                                        !.phone = p]]
         ELSE /\ enrollment' = [enrollment EXCEPT ![t] =
                   [pc |-> "done",
                    response |-> EnrollmentAnswer(500, "", NoneScore,
                                                  "Internal Server Error")]]
              /\ task' = task
    /\ UNCHANGED <<dbKind, voice_threshold, users, attempts, now, session,
                   audio, decision, http, webhook, loader, retry>>

\* the endpoint after enroll_user returned or raised EnrollmentError: the
\* metrics are recorded first, with the keywords success, processing_time
\* and phone.  What the call raises on the success path is caught by
\* `except Exception`; what it raises inside the EnrollmentError handler
\* leaves the endpoint.
enroll_user_endpoint_respond(t) ==
    /\ enrollment[t].pc = "enrolling"
    /\ task[t].op = "enroll" /\ task[t].pc = "done"
    /\ \E detail \in Details :
         LET r == task[t].result
             metrics == record_enrollment_metrics({"success", "processing_time", "phone"})
             words == MessageWords(r.message)
                        \cup (IF r.message = "Audio too short for enrollment"
                              THEN {} ELSE detail)
             chosen == enrollment_error_status(words)
         IN  enrollment' = [enrollment EXCEPT ![t] =
                [pc |-> "done",
                 response |->
                    IF r.kind = "return"
                    THEN IF metrics = "none"
                         THEN EnrollmentAnswer(200, r.message, r.score, "")
                         ELSE EnrollmentAnswer(500, "", NoneScore, "InternalServerError")
                    ELSE IF metrics # "none"
                    THEN EnrollmentAnswer(500, "", NoneScore, "Internal Server Error")
                    ELSE EnrollmentAnswer(chosen.status_code, "", NoneScore,
                                          chosen.error)]]
    /\ UNCHANGED <<dbKind, voice_threshold, users, attempts, now, task, session,
                   audio, decision, http, webhook, loader, retry>>

EndpointNext ==
    \/ \E t \in Tasks, p \in Phones : enroll_user_endpoint(t, p)
    \/ \E t \in Tasks : enroll_user_process_audio(t)
    \/ \E t \in Tasks : enroll_user_store(t)
    \/ \E t \in Tasks : enroll_user_endpoint_respond(t)

EndpointSpec == EnrollInit /\ [][EndpointNext]_vars

\* --------------------------------------------------------- the speaker model
\* a loader that does not look at the flag
_load_model_unguarded(l, loadOk) ==
    IF loadOk
    THEN [exc |-> "none",
          loader |-> [l EXCEPT !.model = "EncoderClassifier", !.model_loaded = TRUE,
                               !.from_hparams_calls = @ + 1, !.loads = @ + 1]]
    ELSE [exc |-> "RuntimeError: Model loading failed",
          loader |-> [l EXCEPT !.from_hparams_calls = @ + 1]]

\* EmbeddingService._load_model: nothing to do once loaded; else from_hparams
\* is called, and model and flag are set only when it returned
_load_model(l, loadOk) ==
    IF l.model_loaded THEN [exc |-> "none", loader |-> l]
    ELSE IF loadOk
    THEN [exc |-> "none",
          loader |-> [l EXCEPT !.model = "EncoderClassifier", !.model_loaded = TRUE,
                               !.from_hparams_calls = @ + 1, !.loads = @ + 1]]
    ELSE [exc |-> "RuntimeError: Model loading failed",
          loader |-> [l EXCEPT !.from_hparams_calls = @ + 1]]

\* what generate_embedding does with the file once the model is there
ExtractionOutcomes == {"embedding", "ValueError", "RuntimeError: Embedding generation failed"}

\* EmbeddingService.generate_embedding, called by requester r.  The method
\* is synchronous and is called from coroutines of the one event loop, so
\* no other request runs between its first and its last statement.
generate_embedding(r) ==
    /\ loader.extraction[r] = "none"
    /\ loader.from_hparams_calls < MaxLoadCalls
    /\ \E exists \in BOOLEAN, loadOk \in BOOLEAN, outcome \in ExtractionOutcomes :
         LET m == _load_model(loader, loadOk)
         IN  loader' =
                IF ~exists
                THEN [loader EXCEPT !.extraction[r] = "FileNotFoundError"]
                ELSE IF m.exc # "none"
                THEN [m.loader EXCEPT !.extraction[r] = m.exc]
                ELSE [m.loader EXCEPT !.extraction[r] = outcome,
                                      !.used_model[r] = m.loader.model]
    /\ UNCHANGED <<dbKind, voice_threshold, users, attempts, now, task, session,
                   audio, decision, http, webhook, enrollment, retry>>

\* the requester's call is answered and it is free to ask again
extraction_answered(r) ==
    /\ loader.extraction[r] # "none"
    /\ loader' = [loader EXCEPT !.extraction[r] = "none", !.used_model[r] = "none"]
    /\ UNCHANGED <<dbKind, voice_threshold, users, attempts, now, task, session,
                   audio, decision, http, webhook, enrollment, retry>>

LoaderNext ==
    \/ \E r \in Requesters : generate_embedding(r)
    \/ \E r \in Requesters : extraction_answered(r)

\* a process that has built its EmbeddingService and extracted nothing yet
LoaderInit ==
    /\ dbKind = "db_manager"
    /\ voice_threshold = DefaultThreshold
    /\ users = [p \in Phones |-> NoUser]
    /\ attempts = <<>>
    /\ now = 0
    /\ task = [t \in Tasks |-> IdleTask]
    /\ session = IdleSession
    /\ audio = IdleAudio
    /\ decision = IdleDecision
    /\ http = IdleHttp
    /\ webhook = [t \in Tasks |-> IdleWebhook]
    /\ enrollment = [t \in Tasks |-> IdleEnrollment]
    /\ loader = IdleLoader
    /\ retry = IdleRetry

LoaderSpec == LoaderInit /\ [][LoaderNext]_vars

\* ------------------------------------------------------------ retry_operation
\* a delay that does not grow
retry_delay_constant(base_delay, attempt) == base_delay

\* delay = base_delay * (2 ** attempt)
retry_delay(base_delay, attempt) == base_delay * 2 ^ attempt

\* retry_operation is called: `for attempt in range(max_retries)` takes its
\* first value, or has none and the statement after the loop,
\* `raise last_exception`, runs with last_exception None
retry_operation_call ==
    /\ retry.pc = "idle"
    /\ retry' = IF retry.max_retries >= 1
                THEN [retry EXCEPT !.pc = "attempt", !.attempt = 0]
                ELSE [retry EXCEPT !.pc = "done", !.outcome = "raise",
                                   !.exc = IF retry.last_exception = NoException
                                           THEN RaiseNoneTypeError
                                           ELSE retry.last_exception]
    /\ UNCHANGED <<dbKind, voice_threshold, users, attempts, now, task, session,
                   audio, decision, http, webhook, enrollment, loader>>

\* `return await operation()` returns or raises an Exception; after a failure
\* that is not the last the coroutine sleeps, after the last the loop is over
\* and last_exception is raised
retry_operation_attempt ==
    /\ retry.pc = "attempt"
    /\ \E ok \in BOOLEAN :
         LET k == retry.calls + 1
         IN  retry' =
                IF ok
                THEN [retry EXCEPT !.calls = k, !.pc = "done",
                                   !.outcome = "return", !.value = k]
                ELSE IF retry.attempt < retry.max_retries - 1
                THEN [retry EXCEPT !.calls = k, !.last_exception = k,
                                   !.failed = @ \cup {retry.attempt},
                                   !.sleeps = Append(@, retry_delay(retry.base_delay,
                                                                    retry.attempt)),
                                   !.pc = "sleeping"]
                ELSE [retry EXCEPT !.calls = k, !.last_exception = k,
                                   !.failed = @ \cup {retry.attempt},
                                   !.pc = "done", !.outcome = "raise", !.exc = k]
    /\ UNCHANGED <<dbKind, voice_threshold, users, attempts, now, task, session,
                   audio, decision, http, webhook, enrollment, loader>>

\* asyncio.sleep(delay) is over: the loop takes its next value
retry_operation_wake ==
    /\ retry.pc = "sleeping"
    /\ retry' = [retry EXCEPT !.pc = "attempt", !.attempt = @ + 1]
    /\ UNCHANGED <<dbKind, voice_threshold, users, attempts, now, task, session,
                   audio, decision, http, webhook, enrollment, loader>>

\* a caller passes any max_retries, also none or less, and a base delay
RetryInit ==
    /\ dbKind = "db_manager"
    /\ voice_threshold = DefaultThreshold
    /\ users = [p \in Phones |-> NoUser]
    /\ attempts = <<>>
    /\ now = 0
    /\ task = [t \in Tasks |-> IdleTask]
    /\ session = IdleSession
    /\ audio = IdleAudio
    /\ decision = IdleDecision
    /\ http = IdleHttp
    /\ webhook = [t \in Tasks |-> IdleWebhook]
    /\ enrollment = [t \in Tasks |-> IdleEnrollment]
    /\ loader = IdleLoader
    /\ \E m \in (0 - 1)..MaxRetries, b \in 1..MaxBaseDelay :
         retry = [IdleRetry EXCEPT !.max_retries = m, !.base_delay = b]

RetryNext ==
    \/ retry_operation_call
    \/ retry_operation_attempt
    \/ retry_operation_wake

RetrySpec == RetryInit /\ [][RetryNext]_vars

\* ------------------------------------------------------------------ claims
AttemptsOf(t) == {i \in DOMAIN attempts : attempts[i].call = t}

VerifyDone(t) == task[t].op = "verify" /\ task[t].pc = "done"
EnrollDone(t) == task[t].op = "enroll" /\ task[t].pc = "done"

\* cosine(a, b) >= th, from the definition of the cosine
CosineAtLeast(a, b, th) ==
    LET dot == Dot(a, b)
        nn == Dot(a, a) * Dot(b, b)
    IN  /\ nn > 0
        /\ IF th.n <= 0
           THEN dot >= 0 \/ dot * dot * th.d * th.d <= th.n * th.n * nn
           ELSE dot > 0 /\ dot * dot * th.d * th.d >= th.n * th.n * nn

\* C1: Verify returns success=true only if a voiceprint was stored for the
\* phone and the cosine of the stored and the live embedding is at least the
\* configured threshold; every other completed call returns success=false or
\* raises VerificationError.
C1_SuccessOnlyOnMatch ==
    \A t \in Tasks :
        VerifyDone(t) =>
            /\ task[t].result.kind = "raise" => task[t].result.exc = "VerificationError"
            /\ (task[t].result.kind = "return" /\ task[t].result.success) =>
                  /\ task[t].stored_user.present
                  /\ users[task[t].phone].present
                  /\ CosineAtLeast(task[t].stored_user.embedding, task[t].live_embedding,
                                   voice_threshold)

C1_Witness ==
    \E t \in Tasks :
        /\ VerifyDone(t) /\ task[t].result.kind = "return" /\ task[t].result.success
        /\ task[t].result.score # One

\* C2: no Verify call appends more than one AuthAttempt, on any path.
C2_AtMostOneAttempt == \A t \in Tasks : Cardinality(AttemptsOf(t)) <= 1

C2_Witness ==
    \E t \in Tasks :
        /\ VerifyDone(t) /\ task[t].result.kind = "raise"
        /\ Cardinality(AttemptsOf(t)) = 1

\* C3: whenever the comparison step of a Verify produced (match, score) and
\* the store accepts writes, exactly one AuthAttempt with success=match and
\* score=score has been appended when Verify returns, for every cosine score
\* in [-1, 1].
C3_ComparisonIsLogged ==
    \A t \in Tasks :
        (VerifyDone(t) /\ task[t].result.kind = "return"
            /\ task[t].similarity_score # NoneScore /\ ~task[t].store_error) =>
            /\ Cardinality(AttemptsOf(t)) = 1
            /\ \A i \in AttemptsOf(t) :
                  /\ attempts[i].success = task[t].auth_success
                  /\ attempts[i].score = task[t].similarity_score

\* the lookup of a Verify call found no user
NotEnrolledPath(t) == VerifyDone(t) /\ task[t].logArgs.site = 193

\* C4: when no user is stored for the phone, Verify does not raise; it
\* appends exactly one AuthAttempt (false, 0.0), returns (false, "not
\* enrolled", None), and neither opens the WebSocket nor extracts an embedding.
\* Stated for the calls whose store did not reject the write.
C4_NotEnrolled ==
    \A t \in Tasks :
        (NotEnrolledPath(t) /\ ~task[t].store_error) =>
            /\ task[t].result =
                  Return(FALSE, "User not enrolled for voice authentication", NoneScore)
            /\ task[t].ws = "none"
            /\ task[t].steps \cap {"connect", "capture_audio", "generate_embedding"} = {}
            /\ Cardinality(AttemptsOf(t)) = 1
            /\ \A i \in AttemptsOf(t) :
                  ~attempts[i].success /\ attempts[i].score = Zero

\* the capture of a Verify call failed with VAPIConnectionError or VAPIAudioError
CaptureFailedPath(t) == VerifyDone(t) /\ task[t].logArgs.site \in {225, 229}

\* C5 as stated: when live capture fails with VAPIConnectionError or
\* VAPIAudioError, Verify appends exactly one AuthAttempt (false, 0.0) and then
\* raises VerificationError.
C5_CaptureFailure ==
    \A t \in Tasks :
        CaptureFailedPath(t) =>
            /\ task[t].result.kind = "raise"
            /\ task[t].result.exc = "VerificationError"
            /\ Cardinality(AttemptsOf(t)) = 1
            /\ \A i \in AttemptsOf(t) :
                  ~attempts[i].success /\ attempts[i].score = Zero

\* C5 amended: when live capture fails with VAPIConnectionError or
\* VAPIAudioError, Verify raises VerificationError after one log of
\* (false, 0.0), which appends exactly one AuthAttempt if the store does not
\* reject the write and none if it does.
C5_CaptureFailureBestEffort ==
    \A t \in Tasks :
        CaptureFailedPath(t) =>
            /\ task[t].result.kind = "raise"
            /\ task[t].result.exc = "VerificationError"
            /\ "log" \in task[t].steps
            /\ Cardinality(AttemptsOf(t)) = IF task[t].store_error THEN 0 ELSE 1
            /\ \A i \in AttemptsOf(t) :
                  ~attempts[i].success /\ attempts[i].score = Zero

C5_Witness ==
    \E t \in Tasks :
        /\ CaptureFailedPath(t) /\ task[t].captured.exc = "VAPIAudioError"
        /\ task[t].result.kind = "raise"
        /\ Cardinality(AttemptsOf(t)) = 1

\* the live embedding of a Verify call could not be obtained: extraction
\* raised, or the extracted vector failed validation
EmbeddingFailedPath(t) == VerifyDone(t) /\ task[t].logArgs.site \in {246, 251}

\* C6: when the live embedding cannot be obtained, Verify logs one attempt
\* (false, 0.0) and returns (false, "processing failed", None) instead of
\* raising.
C6_ProcessingFailedReturns ==
    \A t \in Tasks :
        EmbeddingFailedPath(t) =>
            /\ "log" \in task[t].steps
            /\ ~task[t].logArgs.success /\ task[t].logArgs.score = Zero
            /\ task[t].result =
                  Return(FALSE, "Failed to process captured audio", NoneScore)

\* C7: whether or not the store write of the AuthAttempt succeeds, a Verify
\* that was waiting on its log ends with the outcome (the returned triple or
\* the VerificationError) that follows the log in the code.
C7_LoggingIsBestEffort ==
    [][\A t \in Tasks :
          (task[t].op = "verify" /\ task[t].pc = "log" /\ task'[t] # task[t]) =>
              /\ task'[t].pc = "done"
              /\ task'[t].result = task[t].then]_vars

C7_Witness ==
    \E t \in Tasks :
        /\ VerifyDone(t) /\ "log" \in task[t].steps /\ task[t].store_error
        /\ AttemptsOf(t) = {}
        /\ task[t].result = task[t].then
        /\ task[t].result.kind = "return"

\* C8: the AuthAttempt of a Verify call is written before the caller has the
\* result or the VerificationError; nothing is written for the call afterwards.
C8_LogBeforeResponse ==
    [][\A t \in Tasks :
          task[t].result.kind # "none" =>
              {i \in DOMAIN attempts' : attempts'[i].call = t} = AttemptsOf(t)]_vars

C8_Witness ==
    \E t \in Tasks :
        /\ VerifyDone(t) /\ task[t].result.kind \in {"return", "raise"}
        /\ AttemptsOf(t) # {}

\* C9: a Verify task cancelled while its capture session is in flight has its
\* WebSocket closed and appends no AuthAttempt.
C9_CancelClosesAndLogsNothing ==
    \A t \in Tasks :
        task[t].cancelled =>
            /\ task[t].ws # "open"
            /\ AttemptsOf(t) = {}
            /\ task[t].result = Cancelled

C9_Witness ==
    \E t \in Tasks :
        /\ task[t].cancelled /\ task[t].ws = "closed" /\ "connect" \in task[t].steps
        /\ dbKind = "db_manager"

EnrollSteps == {"process_audio", "duration", "generate_embedding", "validate_embedding"}

\* C10: Enroll writes the store only as its last step, after fetch,
\* normalization, the duration check, extraction and validation succeeded, and
\* only the row of its phone; an Enroll that fails raises EnrollmentError and
\* changes no stored record.
C10_EnrollStoresLast ==
    [][\A t \in Tasks :
          (task[t].op = "enroll" /\ task'[t] # task[t]) =>
              /\ task'[t].result.kind = "raise" =>
                    /\ task'[t].result.exc = "EnrollmentError"
                    /\ users' = users
              /\ users' # users =>
                    /\ task[t].pc = "store"
                    /\ EnrollSteps \subseteq task[t].steps
                    /\ task'[t].result = Return(TRUE, "enrolled", One)
                    /\ \A q \in Phones \ {task[t].phone} : users'[q] = users[q]
                    /\ users'[task[t].phone] =
                          UserRow(task[t].embedding, task[t].enrolled_at)]_vars

C10_Witness ==
    \E t \in Tasks :
        /\ EnrollDone(t) /\ task[t].result.kind = "raise"
        /\ "create_or_update_user" \in task[t].steps
        /\ dbKind = "db_manager"
        /\ \E u \in Tasks :
              /\ EnrollDone(u) /\ task[u].result.kind = "return"
              /\ task[u].phone = task[t].phone
              /\ users[task[t].phone] = UserRow(task[u].embedding, task[u].enrolled_at)
              /\ task[u].embedding # task[t].embedding

\* C11: Enroll accepts normalized audio of exactly 3.0 s and rejects every
\* shorter one with EnrollmentError (too short); a rejected Enroll has
\* extracted no embedding and called no store write.
C11_EnrollDurationBoundary ==
    \A t \in Tasks :
        (task[t].op = "enroll" /\ "process_audio" \in task[t].steps
            /\ task[t].processed_audio.exc = "none") =>
            IF task[t].processed_audio.wav_len - 44 < 3 * 16000 * 2
            THEN /\ task[t].pc = "done"
                 /\ task[t].result = Raise("EnrollmentError", "Audio too short for enrollment")
                 /\ task[t].steps \cap {"generate_embedding", "validate_embedding",
                                        "create_or_update_user"} = {}
                 /\ task[t].embedding = ZeroEmbedding
            ELSE /\ "generate_embedding" \in task[t].steps
                 /\ task[t].result.message # "Audio too short for enrollment"

C11_Witness ==
    \E t, u \in Tasks :
        /\ EnrollDone(t) /\ task[t].processed_audio.wav_len = 44 + 96000
        /\ task[t].result = Return(TRUE, "enrolled", One)
        /\ EnrollDone(u) /\ task[u].processed_audio = [exc |-> "none", wav_len |-> 44 + 95999]
        /\ task[u].result.kind = "raise"

\* C12: users are keyed by phone.  An upsert that the store does not reject
\* leaves the row of its phone equal to the User written, whatever the row
\* held before, get_user_by_phone then returns that User exactly, and the
\* Enroll that made it returns "enrolled" (re-enrollment is no error).
C12_UpsertByPhone ==
    [][\A t \in Tasks :
          (task[t].op = "enroll" /\ task[t].pc = "store" /\ task'[t] # task[t]
              /\ ~task'[t].store_error) =>
              LET U == UserRow(task[t].embedding, task[t].enrolled_at)
              IN  /\ task'[t].result = Return(TRUE, "enrolled", One)
                  /\ users'[task[t].phone] = U
                  /\ \A q \in Phones \ {task[t].phone} : users'[q] = users[q]
                  /\ get_user_by_phone(dbKind, users'[task[t].phone], TRUE)
                        = [exc |-> "none", user |-> U]]_vars

\* C13: for every phone and every interleaving of concurrent Enroll calls,
\* an overwrite of the stored record never lowers its enrolled_at.
C13_EnrolledAtNeverDecreases ==
    [][\A p \in Phones :
          (users[p].present /\ users'[p].present) =>
              users'[p].enrolled_at >= users[p].enrolled_at]_vars

\* C14: the attempt log is append-only.  No step of Enroll, Verify, the
\* history query or the failure count removes a stored AuthAttempt or changes
\* its phone, success, score or created_at.
C14_AttemptsAppendOnly ==
    [][/\ Len(attempts') >= Len(attempts)
       /\ \A i \in DOMAIN attempts : attempts'[i] = attempts[i]]_vars

C14_Witness ==
    \E t, u \in Tasks :
        /\ VerifyDone(t) /\ AttemptsOf(t) # {}
        /\ task[u].op = "history" /\ task[u].pc = "done"
        /\ Len(task[u].history) = 1 /\ task[u].history[1].call = t
        /\ Len(attempts) = 1

\* C15: every AuthAttempt that Verify appended has a score in [0.0, 1.0], and
\* the attempt of a call that never obtained a comparison score (not enrolled,
\* capture failure, audio too short, extraction or validation failure) has
\* success = false and score = 0.0.
C15_AttemptScores ==
    \A i \in DOMAIN attempts :
        /\ attempts[i].score.d > 0
        /\ attempts[i].score.s >= 0
        /\ attempts[i].score.n <= attempts[i].score.d
        /\ task[attempts[i].call].similarity_score = NoneScore =>
              (~attempts[i].success /\ attempts[i].score = Zero)

C15_Witness ==
    \E i, j \in DOMAIN attempts :
        /\ attempts[i].score.s = 1 /\ attempts[i].score.n < attempts[i].score.d
        /\ task[attempts[j].call].similarity_score = NoneScore
        /\ task[attempts[j].call].logArgs.site = 218
        /\ attempts[j].score = Zero

\* the time since capture start at which the loop was left
StopElapsed == session.stopped_at - session.capture_start_time

\* C16: for all parameter values, silence_duration = 0 included, a capture
\* session never leaves Capturing through the silence stop condition before
\* min_duration has elapsed since capture start.
C16_NoSilenceStopBeforeMin ==
    session.stop_reason = "silence" => StopElapsed >= session.min_duration

\* C17: max_duration is an absolute upper bound: once a message has been
\* processed at or after max_duration since capture start, whatever the
\* message is, the session is no longer Capturing.
C17_MaxDurationIsAbsolute ==
    session.frame_after_max => session.state # "Capturing"

\* C18: a session whose stream delivers only JSON messages without audio and
\* is never closed ends at max_duration, failed with VAPIAudioError.
C18_NoAudioStreamFails ==
    (session.frame_after_max /\ session.all_non_audio /\ session.stop_reason # "closed") =>
        /\ session.state = "Failed"
        /\ session.exc = "VAPIAudioError"
        /\ session.stop_reason = "max"

\* the defaults, and a stream that so far delivered a silent audio frame at
\* every instant since capture start and was not closed
DefaultSilentStream ==
    /\ session.state \in {"Capturing", "Done", "Failed"}
    /\ session.min_duration = 3 /\ session.silence_duration = 2
    /\ session.max_audio_duration = 30
    /\ session.all_silent /\ session.gapless
    /\ session.stop_reason \notin {"connect", "closed", "error"}

\* C19 as stated: with the defaults, a session fed only silent audio frames
\* ends at max_duration and not earlier, and produces a WAV.
C19_SilentStreamRunsToMax ==
    (DefaultSilentStream /\ session.state # "Capturing") =>
        /\ session.state = "Done"
        /\ StopElapsed >= 30

\* C19 amended: with the defaults, a session fed only silent audio frames
\* ends through the silence stop 5 s (min_duration + silence_duration) after
\* capture start, not earlier and not later, and produces a WAV.
C19_SilentStreamStopsAfterMinPlusSilence ==
    DefaultSilentStream =>
        /\ session.state = "Capturing" =>
              /\ now - session.capture_start_time <= 5
              /\ now - session.capture_start_time = 5 => ~session.frame_now
        /\ session.state # "Capturing" =>
              /\ session.state = "Done"
              /\ session.stop_reason = "silence"
              /\ StopElapsed = 5
              /\ Len(session.audio_buffer) >= 1

C19_Witness ==
    /\ DefaultSilentStream /\ session.state = "Done"
    /\ session.stop_reason = "silence" /\ StopElapsed = 5
    /\ Len(session.audio_buffer) = 6

\* C20: with silence_duration = 0 and min_duration = 0, the first silent audio
\* frame the session processes ends the capture: the frame is buffered, the
\* WAV is produced from the buffer with it, and nothing is consumed afterwards.
C20_FirstSilentFrameStops ==
    [][(session.min_duration = 0 /\ session.silence_duration = 0) =>
          /\ (session.state = "Capturing" /\ session'.last_audio = "silent"
                  /\ session'.audio_buffer # session.audio_buffer) =>
                /\ session'.state = "Done"
                /\ Len(session'.audio_buffer) = Len(session.audio_buffer) + 1
                /\ session'.wav_data.data = join(session'.audio_buffer)
                /\ session'.stopped_at = now
          /\ session.state = "Done" =>
                /\ session'.state = "Done"
                /\ session'.audio_buffer = session.audio_buffer
                /\ session'.wav_data = session.wav_data
                /\ session'.stopped_at = session.stopped_at]_vars

C20_Witness ==
    /\ session.min_duration = 0 /\ session.silence_duration = 0
    /\ session.state = "Done" /\ session.stop_reason = "silence"
    /\ session.last_audio = "silent"
    /\ Len(session.audio_buffer) = 3 /\ StopElapsed = 2

\* C21: when the peer closes the stream during Capturing, cleanly or not, the
\* session fails with the connection-closed error if no PCM frame was
\* buffered, and otherwise ends Done with the WAV of the buffered frames.
C21_RemoteClose ==
    session.stop_reason = "closed" =>
        IF session.audio_buffer = <<>>
        THEN session.state = "Failed" /\ session.exc = "VAPIConnectionError"
        ELSE /\ session.state = "Done"
             /\ session.wav_data.data = join(session.audio_buffer)

\* C22: in every capture_audio_from_vapi call whose connection was opened,
\* the socket is closed exactly once before the call returns or raises,
\* whichever way capture_audio ended, and is_connected is false afterwards.
C22_SocketClosedOnce ==
    /\ session.close_calls <= 1
    /\ (session.returned /\ session.stop_reason # "connect") =>
          /\ session.close_calls = 1
          /\ ~session.is_connected

C22_Witness ==
    /\ session.returned /\ session.state = "Failed"
    /\ session.exc = "VAPIAudioError" /\ session.stop_reason = "error"
    /\ session.received # <<>>
    /\ session.close_calls = 1 /\ ~session.is_connected

\* C23: a message that is not valid JSON, whose audio cannot be decoded, that
\* has no audio key or whose decoded chunk is empty leaves the buffer and the
\* silence timer as they are and does not end the capture.
C23_SkippedFramesChangeNothing ==
    session.state = "Capturing" =>
        \A frame \in OtherFrames :
            LET after == CaptureLoopTurn(session, frame, NoBytes, now)
            IN  /\ after.audio_buffer = session.audio_buffer
                /\ after.silence_start_time = session.silence_start_time
                /\ after.state = "Capturing"

C23_Witness ==
    /\ session.state = "Capturing" /\ session.last_frame = "skipped"
    /\ Truthy(session.silence_start_time)
    /\ now > session.silence_start_time
    /\ Len(session.audio_buffer) = 2

\* the chunks put together one after the other, first to last
RECURSIVE InArrivalOrder(_)
InArrivalOrder(chunks) ==
    IF chunks = <<>> THEN <<>>
    ELSE InArrivalOrder(SubSeq(chunks, 1, Len(chunks) - 1)) \o chunks[Len(chunks)]

\* C24: the PCM of the WAV a session produces is the concatenation, in
\* arrival order, of every non-empty decoded chunk received from capture
\* start up to and including the frame that stopped the capture.
C24_WavIsArrivalOrderConcatenation ==
    session.state = "Done" =>
        /\ session.wav_data.data = InArrivalOrder(session.received)
        /\ session.wav_data.data_size = 2 * Len(session.received)

C24_Witness ==
    /\ session.state = "Done" /\ session.stop_reason = "silence"
    /\ session.received = <<<<1, 1>>, <<2, 2>>, <<3, 3>>>>
    /\ session.wav_data.data = <<1, 1, 2, 2, 3, 3>>

\* C25: for any PCM byte string P, the empty one included,
\* pcm_to_wav(P, 16000, 1, 2) returns a blob of |P| + 44 bytes that
\* validate_audio_format accepts and whose duration is |P| / 32000 seconds.
C25_PcmToWavRoundTrip ==
    /\ audio.pc # "idle" =>
          /\ audio.exc = "none"
          /\ WavLen(audio.wav_data) = Len(audio.pcm_data) + 44
    /\ audio.pc \in {"validated", "measured"} => audio.is_valid
    /\ audio.pc = "measured" =>
          /\ audio.duration.exc = "none"
          /\ audio.duration.data_size * 32000
                = Len(audio.pcm_data) * audio.duration.bytes_per_second

\* C26: for any valid embedding U and any threshold up to 1.0,
\* verify_speaker(U, U, threshold) returns (True, 1.0).
C26_SelfDecisionMatches ==
    (/\ decision.pc = "done"
     /\ decision.embedding1 = decision.embedding2
     /\ validate_embedding(decision.embedding1)
     /\ decision.threshold.n <= decision.threshold.d) =>
        /\ decision.exc = "none"
        /\ decision.is_match
        /\ decision.similarity = One

\* a and b point the same way: a = c * b for some c > 0
Collinear(a, b) == Dot(a, b) > 0 /\ Dot(a, b) * Dot(a, b) = Dot(a, a) * Dot(b, b)

C28_HealthzReflectsDependencies ==
    (http.request.path = "/healthz" /\ http.response.by = "endpoint") =>
        (http.response.status = "healthy" <=> (http.db_healthy /\ http.model_loaded))

\* C29: every response carries the X-Call-ID of its request, whatever the
\* route and whoever produced the response.
C29_CallIdEchoed ==
    (http.response # NoResponse /\ http.request.call_id # "") =>
        http.response.x_call_id = http.request.call_id

\* verify_user was not called for the webhook call of task t: no socket was
\* opened and no attempt logged for it
NotVerified(t) == task[t] = IdleTask /\ AttemptsOf(t) = {}

EnrollSucceeded(t) ==
    /\ task[t].op = "enroll" /\ task[t].pc = "done"
    /\ task[t].result.kind = "return"

\* no other call has upserted the phone of call t
OnlyUpsertOfPhone(t) ==
    \A u \in Tasks \ {t} :
        ~(task[u].op = "enroll" /\ task[u].phone = task[t].phone
            /\ "create_or_update_user" \in task[u].steps)

\* C31: when every step of an enrollment succeeds, the endpoint answers 200
\* with status 'enrolled' and score 1.0, and a lookup of the phone then gives
\* a user whose embedding is the extracted vector.
C31_EnrollSuccessAnswered ==
    \A t \in Tasks :
        (enrollment[t].pc = "done" /\ EnrollSucceeded(t)) =>
            /\ enrollment[t].response.status_code = 200
            /\ enrollment[t].response.status = "enrolled"
            /\ enrollment[t].response.score = One
            /\ OnlyUpsertOfPhone(t) =>
                 LET r == get_user_by_phone(dbKind, users[task[t].phone], TRUE)
                 IN  r.exc = "none" /\ r.user.present
                       /\ r.user.embedding = task[t].embedding

\* C32: an enrollment whose normalized audio is shorter than 3.0 s is
\* answered HTTP 422 with the error kind TooShort.
C32_TooShortAnswered422 ==
    \A t \in Tasks :
        (enrollment[t].pc = "done" /\ task[t].op = "enroll"
           /\ task[t].result.kind = "raise"
           /\ task[t].result.message = "Audio too short for enrollment") =>
            /\ enrollment[t].response.status_code = 422
            /\ enrollment[t].response.error = "TooShort"

C33_SessionEndsByDeadline ==
    /\ session.state = "Capturing" => now - session.capture_start_time <= WebsocketTimeout
    /\ session.state \in {"Done", "Failed"} /\ session.capture_start_time # NoneTime =>
         session.stopped_at - session.capture_start_time <= WebsocketTimeout


\* C34: the speaker model is loaded at most once per process however the
\* first extractions interleave; an extraction that reaches the model runs on
\* a fully constructed one; and while no load has succeeded the service is
\* left unloaded, flag down and no model, so that the next extraction calls
\* the loader again.
C34_ModelLoadedAtMostOnce ==
    /\ [](/\ loader.loads <= 1
          /\ \A r \in Requesters :
               loader.extraction[r] \in ExtractionOutcomes =>
                   loader.used_model[r] = "EncoderClassifier"
          /\ loader.model_loaded <=> loader.loads = 1
          /\ loader.model_loaded <=> loader.model = "EncoderClassifier")
    /\ [][\A r \in Requesters :
            (loader.extraction[r] = "none"
               /\ loader'.extraction[r] \notin {"none", "FileNotFoundError"}) =>
                loader'.from_hparams_calls =
                    loader.from_hparams_calls + (IF loader.model_loaded THEN 0 ELSE 1)]_vars

\* a load failed for one requester, a later one loaded the model, and a
\* third used it without another load
C34_Witness ==
    \E r1, r2, r3 \in Requesters :
        /\ r1 # r2 /\ r2 # r3 /\ r1 # r3
        /\ loader.extraction[r1] = "RuntimeError: Model loading failed"
        /\ loader.extraction[r2] = "embedding"
        /\ loader.extraction[r3] = "embedding"
        /\ loader.from_hparams_calls = 2 /\ loader.loads = 1


\* the delays slept after the first n failed attempts
Backoff(base_delay, n) == [k \in 1..n |-> base_delay * 2 ^ (k - 1)]

\* C35: with max_retries >= 1, retry_operation invokes the operation at most
\* max_retries times, stops at the first success and returns its value,
\* sleeps base_delay * 2^k after the k-th failed attempt (k from 0) only when
\* another attempt follows, and raises the last exception when every attempt
\* failed.
C35_RetrySchedule ==
    retry.max_retries >= 1 =>
        /\ retry.calls <= retry.max_retries
        /\ Cardinality(retry.failed) =
              IF retry.outcome = "return" THEN retry.calls - 1 ELSE retry.calls
        /\ retry.outcome = "return" => retry.pc = "done" /\ retry.value = retry.calls
        /\ retry.sleeps =
              Backoff(retry.base_delay,
                      Cardinality(retry.failed \cap 0..(retry.max_retries - 2)))
        /\ retry.outcome = "raise" =>
              /\ retry.pc = "done"
              /\ retry.calls = retry.max_retries
              /\ retry.exc = retry.calls

\* three attempts failed: two sleeps, then the third exception is raised
C35_Witness ==
    /\ retry.max_retries = 3 /\ retry.base_delay = 1
    /\ retry.pc = "done" /\ retry.outcome = "raise"
    /\ retry.calls = 3 /\ retry.exc = 3
    /\ retry.sleeps = <<1, 2>>

\* C39: whatever max_retries is, zero and negative included, retry_operation
\* invokes the operation at least once, and what it returns or raises is a
\* value returned or an exception raised by the operation.
C39_AlwaysInvokes ==
    retry.pc = "done" =>
        /\ retry.calls >= 1
        /\ \/ retry.outcome = "return" /\ retry.value \in 1..retry.calls
           \/ retry.outcome = "raise" /\ retry.exc \in 1..retry.calls


\* the comparison of verify_user call t, made on the row it read
Compared(t) ==
    /\ task[t].op = "verify"
    /\ "verify_speaker" \in task[t].steps
    /\ task[t].similarity_score # NoneScore

\* C36: verify_user decides against the voiceprint it read in its first step:
\* match and score are those of the embedding read then and the live
\* embedding, also when an enrollment of the same phone completed during the
\* capture; and the row is looked up once, what was read is never replaced.
C36_DecidesOnEmbeddingReadFirst ==
    /\ [](\A t \in Tasks :
            Compared(t) =>
                LET v == verify_speaker(task[t].stored_user.embedding,
                                        task[t].live_embedding, voice_threshold)
                IN  /\ task[t].stored_user.present
                    /\ v.exc = "none"
                    /\ task[t].similarity_score = v.similarity
                    /\ task[t].auth_success = v.is_match)
    /\ [][\A t \in Tasks :
            (task[t].op = "verify" /\ "get_user" \in task[t].steps) =>
                /\ task'[t].stored_user = task[t].stored_user
                /\ task'[t].pc # "get_user"]_vars

\* an enrollment of the phone completed between the lookup and the
\* comparison, and the row now in the table would have decided otherwise
C36_Witness ==
    \E t \in Tasks, u \in Tasks :
        /\ Compared(t) /\ task[t].pc = "done"
        /\ EnrollSucceeded(u) /\ task[u].phone = task[t].phone
        /\ users[task[t].phone].embedding = task[u].embedding
        /\ users[task[t].phone].embedding # task[t].stored_user.embedding
        /\ verify_speaker(users[task[t].phone].embedding, task[t].live_embedding,
                          voice_threshold).is_match # task[t].auth_success

\* C37: when the lookup of the user raises, verify_user raises
\* VerificationError, appends no attempt and never opens the WebSocket.
C37_LookupFailureRaisesUnlogged ==
    \A t \in Tasks :
        task[t].lookup_raised =>
            /\ task[t].pc = "done"
            /\ task[t].result = Raise("VerificationError", "Failed to retrieve user data")
            /\ AttemptsOf(t) = {}
            /\ "log" \notin task[t].steps
            /\ task[t].ws = "none" /\ "connect" \notin task[t].steps

\* the lookup of an enrolled phone raised while another call had logged
C37_Witness ==
    \E t \in Tasks :
        /\ task[t].lookup_raised
        /\ task[t].pc = "done" /\ task[t].result.exc = "VerificationError"
        /\ attempts # <<>>


\* the loop has just processed an audio-bearing frame
AudioFrameProcessed ==
    /\ session.state = "Capturing"
    /\ Len(session'.received) = Len(session.received) + 1

\* the min_duration rule applies at the instant of the frame
BeforeMinDuration == now - session.capture_start_time < session.min_duration

\* C38: during a capture the silence timer is set only if the audio-bearing
\* frame processed last was silent; a silent frame that opens a run sets it
\* to its own time, a silent frame that continues a run leaves it at the time
\* of the first frame of the run, unless the min_duration rule cleared it; a
\* loud frame clears it.
C38_SilenceTimerFollowsRun ==
    /\ [](session.silence_start_time # NoneTime =>
            /\ session.last_audio = "silent"
            /\ session.capture_start_time <= session.silence_start_time
            /\ session.silence_start_time <= now)
    /\ [][AudioFrameProcessed =>
            IF session'.last_audio = "silent"
            THEN \/ session'.silence_start_time =
                       (IF session.silence_start_time = NoneTime THEN now
                        ELSE session.silence_start_time)
                 \/ session'.silence_start_time = NoneTime
                      /\ BeforeMinDuration /\ session'.state = "Capturing"
            ELSE session'.silence_start_time = NoneTime]_vars

\* a second silent frame arrived later than the first and the timer still
\* shows the time of the first
C38_Witness ==
    /\ session.state = "Capturing"
    /\ session.all_silent /\ Len(session.received) >= 2
    /\ session.frame_now
    /\ session.silence_start_time # NoneTime
    /\ session.silence_start_time < now

====
